---- MODULE Spec2Model ----
(***************************************************************************)
(* State-machine model of the flare launcher core (src/src/app.rs,         *)
(* src/src/history.rs, key dispatch of src/src/main.rs).                    *)
(*                                                                         *)
(* Strings are sequences of one-character strings, so that tokenising,     *)
(* trimming, lower-casing, tilde expansion and path splitting are computed *)
(* character by character as the code computes them.  Option<T> is a       *)
(* sequence of length 0 (None) or 1 (Some).  Indices held in list_state    *)
(* are 0-based as in the code; TLA+ sequences are 1-based.                 *)
(***************************************************************************)
EXTENDS Integers, Sequences, FiniteSets, TLC

\* ------------------------------------------------------------------------
\* Option<T>
\* ------------------------------------------------------------------------
None == <<>>

Some(x) == <<x>>

IsSome(o) == o # <<>>

Unwrap(o) == o[1]

\* ------------------------------------------------------------------------
\* Characters and strings
\* ------------------------------------------------------------------------

\* Unicode scalar value of every character the model uses (ordering of
\* String::cmp is by these values).
Code ==
    (" " :> 32) @@ ("%" :> 37) @@ ("-" :> 45) @@ ("." :> 46) @@ ("/" :> 47) @@
    ("A" :> 65) @@ ("D" :> 68) @@ ("E" :> 69) @@ ("F" :> 70) @@ ("S" :> 83) @@
    ("U" :> 85) @@
    ("a" :> 97) @@ ("c" :> 99) @@ ("d" :> 100) @@ ("e" :> 101) @@ ("f" :> 102) @@
    ("h" :> 104) @@ ("i" :> 105) @@ ("k" :> 107) @@ ("n" :> 110) @@ ("o" :> 111) @@
    ("p" :> 112) @@ ("r" :> 114) @@ ("s" :> 115) @@ ("u" :> 117) @@ ("x" :> 120) @@
    ("~" :> 126)

\* char::to_lowercase on the characters above
LowerChar(c) ==
    CASE c = "A" -> "a"
      [] c = "D" -> "d"
      [] c = "E" -> "e"
      [] c = "F" -> "f"
      [] c = "S" -> "s"
      [] c = "U" -> "u"
      [] OTHER -> c

RECURSIVE to_lowercase(_)
to_lowercase(s) ==
    IF s = <<>> THEN <<>> ELSE <<LowerChar(Head(s))>> \o to_lowercase(Tail(s))

\* str::starts_with / str::ends_with
starts_with(s, p) ==
    Len(p) <= Len(s) /\ SubSeq(s, 1, Len(p)) = p

ends_with(s, p) ==
    Len(p) <= Len(s) /\ SubSeq(s, Len(s) - Len(p) + 1, Len(s)) = p

\* char::is_whitespace on the characters above
IsWhitespace(c) == c = " "

RECURSIVE TrimStart(_)
TrimStart(s) ==
    IF s # <<>> /\ IsWhitespace(Head(s)) THEN TrimStart(Tail(s)) ELSE s

RECURSIVE TrimEnd(_)
TrimEnd(s) ==
    IF s # <<>> /\ IsWhitespace(s[Len(s)]) THEN TrimEnd(SubSeq(s, 1, Len(s) - 1)) ELSE s

\* str::trim
trim(s) == TrimEnd(TrimStart(s))

RECURSIVE SplitWs(_, _, _)
SplitWs(s, cur, acc) ==
    IF s = <<>>
    THEN IF cur = <<>> THEN acc ELSE Append(acc, cur)
    ELSE IF IsWhitespace(Head(s))
         THEN SplitWs(Tail(s), <<>>, IF cur = <<>> THEN acc ELSE Append(acc, cur))
         ELSE SplitWs(Tail(s), Append(cur, Head(s)), acc)

\* str::split_whitespace().collect()
split_whitespace(s) == SplitWs(s, <<>>, <<>>)

RECURSIVE join(_, _)
\* [&str]::join(sep)
join(parts, sep) ==
    IF parts = <<>> THEN <<>>
    ELSE IF Len(parts) = 1 THEN parts[1]
    ELSE parts[1] \o sep \o join(Tail(parts), sep)

\* str::rfind(c): 0-based byte index of the last occurrence, as an Option
rfind(s, c) ==
    LET hits == {i \in 1..Len(s) : s[i] = c}
    IN  IF hits = {} THEN None
        ELSE Some((CHOOSE i \in hits : \A j \in hits : j <= i) - 1)

\* Ordering of String::cmp: lexicographic by scalar value
RECURSIVE StrLess(_, _)
StrLess(a, b) ==
    IF b = <<>> THEN FALSE
    ELSE IF a = <<>> THEN TRUE
    ELSE IF Head(a) = Head(b) THEN StrLess(Tail(a), Tail(b))
    ELSE Code[Head(a)] < Code[Head(b)]

\* ------------------------------------------------------------------------
\* Subsequence matcher
\* ------------------------------------------------------------------------
RECURSIVE FuzzyWalk(_, _)
FuzzyWalk(q, t) ==
    IF q = <<>> THEN TRUE
    ELSE IF t = <<>> THEN FALSE
    ELSE IF Head(t) = Head(q) THEN FuzzyWalk(Tail(q), Tail(t))
    ELSE FuzzyWalk(q, Tail(t))

\* fuzzy_match as it would be if the order of the characters did not matter
fuzzy_match_AnyOrder(query, target) ==
    \A i \in 1..Len(query) : \E j \in 1..Len(target) : target[j] = query[i]

fuzzy_match(query, target) == FuzzyWalk(query, target)

\* ------------------------------------------------------------------------
\* Environment: home directory, working directory and filesystem
\* ------------------------------------------------------------------------

\* dirs::home_dir() = Some("/h")
Home == <<"/", "h">>

\* The filesystem the launcher runs on.  A node is named by the list of its
\* path segments from the root; children is the order read_dir yields them
\* in (not alphabetical).  mode_exec is `mode & 0o111 != 0`.
Fs ==
    (<<>> :>
        [is_dir |-> TRUE, readable |-> TRUE, mode_exec |-> TRUE,
         children |-> << <<"h", "x">>, <<"h">> >>]) @@
    (<< <<"h">> >> :>
        [is_dir |-> TRUE, readable |-> TRUE, mode_exec |-> TRUE,
         children |-> << <<"A">>, <<".", "c">>, <<"D">>, <<"-", "p">> >>]) @@
    (<< <<"h", "x">> >> :>
        [is_dir |-> TRUE, readable |-> FALSE, mode_exec |-> TRUE,
         children |-> << <<"A">> >>]) @@
    (<< <<"h">>, <<"A">> >> :>
        [is_dir |-> FALSE, readable |-> TRUE, mode_exec |-> FALSE,
         children |-> <<>>]) @@
    (<< <<"h">>, <<".", "c">> >> :>
        [is_dir |-> FALSE, readable |-> TRUE, mode_exec |-> FALSE,
         children |-> <<>>]) @@
    (<< <<"h">>, <<"-", "p">> >> :>
        [is_dir |-> FALSE, readable |-> TRUE, mode_exec |-> FALSE,
         children |-> <<>>]) @@
    (<< <<"h">>, <<"D">> >> :>
        [is_dir |-> TRUE, readable |-> TRUE, mode_exec |-> TRUE,
         children |-> << <<"x">> >>]) @@
    (<< <<"h">>, <<"D">>, <<"x">> >> :>
        [is_dir |-> FALSE, readable |-> TRUE, mode_exec |-> TRUE,
         children |-> <<>>])

\* The process's current directory (the launcher is started from the home
\* directory).
Cwd == << <<"h">> >>

RECURSIVE SplitSlash(_, _, _)
SplitSlash(s, cur, acc) ==
    IF s = <<>>
    THEN IF cur = <<>> THEN acc ELSE Append(acc, cur)
    ELSE IF Head(s) = "/"
         THEN SplitSlash(Tail(s), <<>>, IF cur = <<>> THEN acc ELSE Append(acc, cur))
         ELSE SplitSlash(Tail(s), Append(cur, Head(s)), acc)

RootComp == <<"/">>

CurDirComp == <<".">>

ParentDirComp == <<".", ".">>

RECURSIVE DropInnerCurDir(_)
DropInnerCurDir(segs) ==
    IF segs = <<>> THEN <<>>
    ELSE (IF Head(segs) = CurDirComp THEN <<>> ELSE <<Head(segs)>>)
         \o DropInnerCurDir(Tail(segs))

\* Path::components() over the `/`-separated segments of s
ComponentsOf(s, segs) ==
    IF starts_with(s, <<"/">>)
    THEN <<RootComp>> \o DropInnerCurDir(segs)
    ELSE IF segs # <<>> /\ Head(segs) = CurDirComp
         THEN <<CurDirComp>> \o DropInnerCurDir(Tail(segs))
         ELSE DropInnerCurDir(segs)

\* Path::components(): repeated separators and `.` segments are dropped,
\* except a leading `.` of a relative path.
Components(s) == ComponentsOf(s, SplitSlash(s, <<>>, <<>>))

\* The path string of a component list
RenderComponents(comps) ==
    IF comps = <<>> THEN <<>>
    ELSE IF Head(comps) = RootComp THEN <<"/">> \o join(Tail(comps), <<"/">>)
    ELSE join(comps, <<"/">>)

FileNameOf(comps) ==
    IF comps = <<>> THEN None
    ELSE IF comps[Len(comps)] \in {RootComp, CurDirComp, ParentDirComp} THEN None
    ELSE Some(comps[Len(comps)])

\* Path::file_name(): the last component when it is a normal one
file_name(s) == FileNameOf(Components(s))

ParentOf(comps) ==
    IF comps = <<>> \/ comps[Len(comps)] = RootComp THEN None
    ELSE Some(RenderComponents(SubSeq(comps, 1, Len(comps) - 1)))

\* Path::parent(): the path without its last component
parent(s) == ParentOf(Components(s))

RECURSIVE WalkFrom(_, _)
WalkFrom(at, comps) ==
    IF comps = <<>> THEN at
    ELSE IF Head(comps) = CurDirComp THEN WalkFrom(at, Tail(comps))
    ELSE IF Head(comps) = ParentDirComp
         THEN WalkFrom(IF at = <<>> THEN at ELSE SubSeq(at, 1, Len(at) - 1), Tail(comps))
    ELSE WalkFrom(Append(at, Head(comps)), Tail(comps))

ResolveComponents(comps) ==
    IF Head(comps) = RootComp
    THEN Some(WalkFrom(<<>>, Tail(comps)))
    ELSE Some(WalkFrom(Cwd, comps))

\* The node a path string names (absolute, or relative to Cwd); None for the
\* empty path.
Resolve(s) ==
    IF s = <<>> THEN None ELSE ResolveComponents(Components(s))

\* The metadata of a node; None when nothing is there
Metadata(n) ==
    IF IsSome(n) /\ Unwrap(n) \in DOMAIN Fs THEN Some(Fs[Unwrap(n)]) ELSE None

IsDirMeta(meta) == IsSome(meta) /\ Unwrap(meta).is_dir

\* Path::is_dir()
is_dir(s) == IsDirMeta(Metadata(Resolve(s)))

\* PathBuf::join(name) for a single normal component
PathJoin(dir, name) ==
    IF ends_with(dir, <<"/">>) THEN dir \o name ELSE dir \o <<"/">> \o name

\* read_dir as it would be if a directory that refuses to be read were listed
ReadDirOf_IgnoreRefusal(dir, n, meta) ==
    IF ~IsSome(meta) THEN <<>>
    ELSE [i \in 1..Len(Unwrap(meta).children) |->
            [path   |-> PathJoin(dir, Unwrap(meta).children[i]),
             name   |-> Unwrap(meta).children[i],
             is_dir |-> FALSE]]

ReadDirOf(dir, n, meta) ==
    IF ~IsSome(meta) THEN <<>>
    ELSE IF ~Unwrap(meta).is_dir \/ ~Unwrap(meta).readable THEN <<>>
    ELSE [i \in 1..Len(Unwrap(meta).children) |->
            [path   |-> PathJoin(dir, Unwrap(meta).children[i]),
             name   |-> Unwrap(meta).children[i],
             is_dir |-> IsDirMeta(Metadata(Some(Append(Unwrap(n), Unwrap(meta).children[i]))))]]

ReadDirAt(dir, n) == ReadDirOf(dir, n, Metadata(n))

\* fs::read_dir(dir) with entries.flatten(): the children in directory
\* order, each with entry.path() and file_type().is_dir(); Err (missing,
\* not a directory, unreadable) is modelled as the empty sequence the
\* `if let Ok` skips to.
read_dir(dir) == ReadDirAt(dir, Resolve(dir))

\* ------------------------------------------------------------------------
\* Tilde resolver and directory lister
\* ------------------------------------------------------------------------
expand_tilde(path) ==
    IF path = <<"~">> THEN Home
    ELSE IF starts_with(path, <<"~", "/">>)
         THEN Home \o <<"/">> \o SubSeq(path, 3, Len(path))
         ELSE path

\* The comparator as it would be if directories were never put first
FileLess_PathOnly(a, b, dirs_first) ==
    StrLess(a.path, b.path)

\* The comparator of entries_vec.sort_by
FileLess(a, b, dirs_first) ==
    IF dirs_first /\ a.is_dir # b.is_dir
    THEN a.is_dir /\ ~b.is_dir
    ELSE StrLess(a.path, b.path)

RECURSIVE InsertFile(_, _, _)
InsertFile(x, sorted, dirs_first) ==
    IF sorted = <<>> THEN <<x>>
    ELSE IF FileLess(x, Head(sorted), dirs_first) THEN <<x>> \o sorted
    ELSE <<Head(sorted)>> \o InsertFile(x, Tail(sorted), dirs_first)

RECURSIVE SortFiles(_, _)
SortFiles(v, dirs_first) ==
    IF v = <<>> THEN <<>>
    ELSE InsertFile(v[Len(v)], SortFiles(SubSeq(v, 1, Len(v) - 1), dirs_first),
                    dirs_first)

RECURSIVE ListLoop(_, _, _)
\* The body of `for entry in entries.flatten()`
ListLoop(entries, query_path, file_prefix) ==
    IF entries = <<>> THEN <<>>
    ELSE LET entry == Head(entries)
             rest == ListLoop(Tail(entries), query_path, file_prefix)
         IN  IF starts_with(entry.name, <<".">>) /\ ~starts_with(file_prefix, <<".">>)
             THEN rest
             ELSE IF fuzzy_match(file_prefix, entry.name)
                  THEN LET path_str ==
                               IF starts_with(query_path, <<"~">>)
                                  /\ starts_with(entry.path, Home)
                               THEN <<"~">> \o SubSeq(entry.path, Len(Home) + 1,
                                                      Len(entry.path))
                               ELSE entry.path
                       IN  <<[path |-> path_str, is_dir |-> entry.is_dir]>> \o rest
                  ELSE rest

\* Lines 631-668: the entries of search_dir that match, sorted
ListDir(query_path, dirs_first, search_dir, file_prefix) ==
    LET entries_vec == SortFiles(ListLoop(read_dir(search_dir), query_path, file_prefix),
                                 dirs_first)
    IN  [i \in 1..Len(entries_vec) |-> entries_vec[i].path]

\* Lines 625-629: search_dir for the (dir, file_prefix) pair
ListIn(query_path, dirs_first, dir, file_prefix) ==
    ListDir(query_path, dirs_first,
            IF dir = <<>>
            THEN IF starts_with(query_path, <<"/">>) THEN <<"/">> ELSE <<".">>
            ELSE dir,
            file_prefix)

UnwrapOr(o, default) == IF IsSome(o) THEN Unwrap(o) ELSE default

\* Lines 616-623: the (dir, file_prefix) pair of the expanded path
ListExpanded(query_path, dirs_first, expanded) ==
    IF ends_with(query_path, <<"/">>)
    THEN ListIn(query_path, dirs_first, expanded, <<>>)
    ELSE ListIn(query_path, dirs_first,
                UnwrapOr(parent(expanded), <<>>), UnwrapOr(file_name(expanded), <<>>))

list_files(query_path, dirs_first) ==
    ListExpanded(query_path, dirs_first, expand_tilde(query_path))

\* ------------------------------------------------------------------------
\* Persistence store (History)
\* ------------------------------------------------------------------------

\* History::get_count
get_count(history, app_name) ==
    IF app_name \in DOMAIN history.usage THEN history.usage[app_name] ELSE 0

\* History::is_favorite
is_favorite(history, app_name) ==
    \E i \in 1..Len(history.favorites) : history.favorites[i] = app_name

\* increment as it would be if a launch counted twice
increment_ByTwo(history, app_name) ==
    [history EXCEPT !.usage =
        (app_name :> (get_count(history, app_name) + 2)) @@ history.usage]

\* History::increment (the save to disk is not part of the state)
increment(history, app_name) ==
    [history EXCEPT !.usage =
        (app_name :> (get_count(history, app_name) + 1)) @@ history.usage]

\* Vec::remove(pos), pos 0-based
RemoveAt(s, pos) ==
    SubSeq(s, 1, pos) \o SubSeq(s, pos + 2, Len(s))

\* toggle_favorite as it would be if it only ever added the name
HistoryToggleFavorite_AddOnly(history, app_name) ==
    [history EXCEPT !.favorites = Append(history.favorites, app_name)]

\* History::toggle_favorite
HistoryToggleFavorite(history, app_name) ==
    LET hits == {i \in 1..Len(history.favorites) : history.favorites[i] = app_name}
    IN  IF hits # {}
        THEN LET pos == (CHOOSE i \in hits : \A j \in hits : i <= j) - 1
             IN  [history EXCEPT !.favorites = RemoveAt(history.favorites, pos)]
        ELSE [history EXCEPT !.favorites = Append(history.favorites, app_name)]

\* ------------------------------------------------------------------------
\* Candidate ranker
\* ------------------------------------------------------------------------

\* The comparator as it would be if the usage count were compared before the
\* favorite flag
EntryLess_CountFirst(a, b, history, recent_first) ==
    LET fav_a == is_favorite(history, a.name)
        fav_b == is_favorite(history, b.name)
        count_a == get_count(history, a.name)
        count_b == get_count(history, b.name)
        la == to_lowercase(a.name)
        lb == to_lowercase(b.name)
    IN  IF recent_first /\ count_a # count_b THEN count_b < count_a
        ELSE IF fav_a # fav_b THEN fav_a /\ ~fav_b
        ELSE StrLess(la, lb) \/ (la = lb /\ StrLess(a.name, b.name))

\* The comparator of App::sort_entries: TRUE iff it returns Ordering::Less
EntryLess(a, b, history, recent_first) ==
    LET fav_a == is_favorite(history, a.name)
        fav_b == is_favorite(history, b.name)
        count_a == get_count(history, a.name)
        count_b == get_count(history, b.name)
        la == to_lowercase(a.name)
        lb == to_lowercase(b.name)
    IN  IF fav_a # fav_b THEN fav_a /\ ~fav_b
        ELSE IF recent_first /\ count_a # count_b THEN count_b < count_a
        ELSE StrLess(la, lb) \/ (la = lb /\ StrLess(a.name, b.name))

RECURSIVE InsertEntry(_, _, _, _)
InsertEntry(x, sorted, history, recent_first) ==
    IF sorted = <<>> THEN <<x>>
    ELSE IF EntryLess(x, Head(sorted), history, recent_first) THEN <<x>> \o sorted
    ELSE <<Head(sorted)>> \o InsertEntry(x, Tail(sorted), history, recent_first)

RECURSIVE SortEntries(_, _, _)
SortEntries(v, history, recent_first) ==
    IF v = <<>> THEN <<>>
    ELSE InsertEntry(v[Len(v)],
                     SortEntries(SubSeq(v, 1, Len(v) - 1), history, recent_first),
                     history, recent_first)

\* sort_entries as it would be if, once there is a favorite, it kept the
\* favorites only
sort_entries_FavoritesOnly(a) ==
    [a EXCEPT !.entries =
        SelectSeq(SortEntries(a.entries, a.history, a.config.features.recent_first),
                  LAMBDA e : \/ a.history.favorites = <<>>
                             \/ is_favorite(a.history, e.name))]

\* App::sort_entries
sort_entries(a) ==
    [a EXCEPT !.entries =
        SortEntries(a.entries, a.history, a.config.features.recent_first)]

\* ------------------------------------------------------------------------
\* Query interpreter
\* ------------------------------------------------------------------------
SUDO == <<"s", "u", "d", "o">>

\* The sudo flags that take a value (app.rs line 130)
FlagsWithValue ==
    { <<"-", c>> : c \in {"C", "g", "h", "p", "r", "t", "U", "u"} }

RECURSIVE SudoScan_NoValue(_, _, _)
\* SudoScan as it would be if no flag took a value
SudoScan_NoValue(parts, idx, sudo_args) ==
    IF idx < Len(parts) /\ starts_with(parts[idx + 1], <<"-">>)
    THEN SudoScan_NoValue(parts, idx + 1, Append(sudo_args, parts[idx + 1]))
    ELSE [idx |-> idx, sudo_args |-> sudo_args]

RECURSIVE SudoScan(_, _, _)
\* The `while idx < parts.len()` loop: idx is 0-based
SudoScan(parts, idx, sudo_args) ==
    IF idx < Len(parts)
    THEN LET part == parts[idx + 1]
         IN  IF starts_with(part, <<"-">>)
             THEN IF part \in FlagsWithValue /\ idx + 1 < Len(parts)
                  THEN SudoScan(parts, idx + 2,
                                sudo_args \o <<part, parts[idx + 2]>>)
                  ELSE SudoScan(parts, idx + 1, Append(sudo_args, part))
             ELSE [idx |-> idx, sudo_args |-> sudo_args]
    ELSE [idx |-> idx, sudo_args |-> sudo_args]

\* Lines 115-158: the query_slice of a raw query, and self.sudo_args after
\* the flags of a `sudo` query were pushed onto it
SudoPrefix(search_query, sudo_args) ==
    IF starts_with(search_query, SUDO)
    THEN LET parts == split_whitespace(search_query)
         IN  IF parts # <<>> /\ parts[1] = SUDO
             THEN LET r == SudoScan(parts, 1, sudo_args)
                  IN  [query_slice |->
                          IF r.idx < Len(parts)
                          THEN join(SubSeq(parts, r.idx + 1, Len(parts)), <<" ">>)
                          ELSE <<>>,
                       sudo_args |-> r.sudo_args]
             ELSE [query_slice |-> search_query, sudo_args |-> sudo_args]
    ELSE [query_slice |-> search_query, sudo_args |-> sudo_args]

RECURSIVE FilterEntries_CaseSensitive(_, _)
\* FilterEntries as it would be without lower-casing the entry names
FilterEntries_CaseSensitive(entries, query) ==
    IF entries = <<>> THEN <<>>
    ELSE (IF fuzzy_match(query, Head(entries).name)
          THEN <<Head(entries)>> ELSE <<>>)
         \o FilterEntries_CaseSensitive(Tail(entries), query)

RECURSIVE FilterEntries(_, _)
\* entries.iter().filter(|e| fuzzy_match(&query, &e.name.to_lowercase()))
FilterEntries(entries, query) ==
    IF entries = <<>> THEN <<>>
    ELSE (IF fuzzy_match(query, to_lowercase(Head(entries).name))
          THEN <<Head(entries)>> ELSE <<>>)
         \o FilterEntries(Tail(entries), query)

\* FallbackFound as it would be if the lookup never switched the mode
FallbackFound_NoFileMode(a, words, i, sub_matches) ==
    LET b == [a EXCEPT !.filtered_entries = sub_matches]
    IN  IF a.config.features.enable_launch_args
        THEN [b EXCEPT !.launch_args = Some(SubSeq(words, i + 1, Len(words)))]
        ELSE b

\* FallbackFound as it would be if a word starting with `-` were looked up too
FallbackFound_LookupDashWords(a, words, i, sub_matches) ==
    LET b == [a EXCEPT !.filtered_entries = sub_matches]
    IN  IF a.config.features.enable_launch_args
        THEN LET args == SubSeq(words, i + 1, Len(words))
                 last_arg == args[Len(args)]
                 files == list_files(last_arg, a.config.features.dirs_first)
                 c == IF a.config.features.enable_file_explorer
                         /\ files # <<>>
                      THEN [b EXCEPT !.filtered_files = files,
                                     !.mode = "FileSelection"]
                      ELSE b
             IN  [c EXCEPT !.launch_args = Some(args)]
        ELSE b

\* Lines 197-211: a prefix of i words matched
FallbackFound(a, words, i, sub_matches) ==
    LET b == [a EXCEPT !.filtered_entries = sub_matches]
    IN  IF a.config.features.enable_launch_args
        THEN LET args == SubSeq(words, i + 1, Len(words))
                 last_arg == args[Len(args)]
                 files == list_files(last_arg, a.config.features.dirs_first)
                 c == IF a.config.features.enable_file_explorer
                         /\ ~starts_with(last_arg, <<"-">>)
                         /\ files # <<>>
                      THEN [b EXCEPT !.filtered_files = files,
                                     !.mode = "FileSelection"]
                      ELSE b
             IN  [c EXCEPT !.launch_args = Some(args)]
        ELSE b

\* FallbackLoop as it would be if the shortest matching prefix won
FallbackLoop_ShortestFirst(a, words, i) ==
    LET sub_matches(k) ==
            FilterEntries(a.entries, to_lowercase(join(SubSeq(words, 1, k), <<" ">>)))
        found == { k \in 1..i : sub_matches(k) # <<>> }
    IN  IF found = {} THEN [a EXCEPT !.filtered_entries = <<>>]
        ELSE LET k == CHOOSE k \in found : \A j \in found : k <= j
             IN  FallbackFound(a, words, k, sub_matches(k))

RECURSIVE FallbackLoop(_, _, _)
\* `for i in (1..words.len()).rev()` and the `if !found` after it
FallbackLoop(a, words, i) ==
    IF i < 1 THEN [a EXCEPT !.filtered_entries = <<>>]
    ELSE LET sub_query == join(SubSeq(words, 1, i), <<" ">>)
             sub_matches == FilterEntries(a.entries, to_lowercase(sub_query))
         IN  IF sub_matches # <<>>
             THEN FallbackFound(a, words, i, sub_matches)
             ELSE FallbackLoop(a, words, i - 1)

\* ResetSelection as it would be if a selected index were kept
ResetSelection_KeepIndex(a) ==
    LET count == IF a.mode = "AppSelection"
                 THEN Len(a.filtered_entries) ELSE Len(a.filtered_files)
    IN  [a EXCEPT !.list_state = IF count = 0 THEN None
                                 ELSE IF IsSome(a.list_state) THEN a.list_state
                                 ELSE Some(0)]

\* Lines 224-234: the selection reset
ResetSelection(a) ==
    LET count == IF a.mode = "AppSelection"
                 THEN Len(a.filtered_entries) ELSE Len(a.filtered_files)
    IN  [a EXCEPT !.list_state = IF count = 0 THEN None ELSE Some(0)]

\* ClearDerived as it would be without `self.launch_args = None`
ClearDerived_KeepLaunchArgs(self) ==
    [self EXCEPT !.mode = "AppSelection",
                 !.filtered_files = <<>>,
                 !.sudo_args = <<>>]

\* ClearDerived as it would be without `self.sudo_args.clear()`
ClearDerived_KeepSudoArgs(self) ==
    [self EXCEPT !.launch_args = None,
                 !.mode = "AppSelection",
                 !.filtered_files = <<>>]

\* ClearDerived as it would be without `self.filtered_files.clear()`
ClearDerived_KeepFiles(self) ==
    [self EXCEPT !.launch_args = None,
                 !.mode = "AppSelection",
                 !.sudo_args = <<>>]

\* Lines 110-113: what update_filter resets before anything else
ClearDerived(self) ==
    [self EXCEPT !.launch_args = None,
                 !.mode = "AppSelection",
                 !.filtered_files = <<>>,
                 !.sudo_args = <<>>]

\* IsPathQuery as it would be if the configuration were not consulted
IsPathQuery_IgnoreCapability(self, query_slice_str) ==
    starts_with(query_slice_str, <<"~">>) \/ starts_with(query_slice_str, <<"/">>)

\* Lines 162-163: the query is a path and the file explorer is enabled
IsPathQuery(self, query_slice_str) ==
    /\ self.config.features.enable_file_explorer
    /\ \/ starts_with(query_slice_str, <<"~">>)
       \/ starts_with(query_slice_str, <<"/">>)

\* App::update_filter
update_filter(self) ==
    LET a0 == ClearDerived(self)
        sp == SudoPrefix(a0.search_query, a0.sudo_args)
        a1 == [a0 EXCEPT !.sudo_args = sp.sudo_args]
        query_slice_str == trim(sp.query_slice)
        a2 == IF IsPathQuery(a1, query_slice_str)
              THEN [a1 EXCEPT !.mode = "FileSelection",
                              !.filtered_files =
                                  list_files(query_slice_str,
                                             a1.config.features.dirs_first),
                              !.filtered_entries = <<>>]
              ELSE IF query_slice_str = <<>>
              THEN [a1 EXCEPT !.filtered_entries = a1.entries]
              ELSE LET matches == FilterEntries(a1.entries,
                                                to_lowercase(query_slice_str))
                   IN  IF matches # <<>>
                       THEN [a1 EXCEPT !.filtered_entries = matches]
                       ELSE LET words == split_whitespace(query_slice_str)
                            IN  FallbackLoop(a1, words, Len(words) - 1)
    IN  ResetSelection(a2)

\* ------------------------------------------------------------------------
\* Navigation, auto-complete, favorites
\* ------------------------------------------------------------------------

\* The length both move_selection and select_first/select_last start from
ActiveLen(self) ==
    IF self.mode = "AppSelection"
    THEN Len(self.filtered_entries) ELSE Len(self.filtered_files)

\* The truncating remainder of the `%` operator of i32
rem_truncating(x, n) == IF x < 0 THEN 0 - ((0 - x) % n) ELSE x % n

\* i32::rem_euclid for a positive modulus
rem_euclid(x, n) == x % n

\* App::move_selection
move_selection(self, delta) ==
    LET len == ActiveLen(self)
    IN  IF len = 0 THEN self
        ELSE LET i == IF IsSome(self.list_state)
                      THEN rem_euclid(Unwrap(self.list_state) + delta, len)
                      ELSE 0
             IN  [self EXCEPT !.list_state = Some(i)]

\* App::select_first
select_first(self) ==
    IF ActiveLen(self) > 0 THEN [self EXCEPT !.list_state = Some(0)] ELSE self

\* App::select_last
select_last(self) ==
    LET len == ActiveLen(self)
    IN  IF len > 0 THEN [self EXCEPT !.list_state = Some(len - 1)] ELSE self

\* Vec::get(i), i 0-based
Get(v, i) == IF i + 1 \in 1..Len(v) THEN Some(v[i + 1]) ELSE None

\* new_path as it would be if the separator were never appended
CompletedPath_NoSeparator(selected_file) ==
    selected_file

\* new_path of App::auto_complete: the selected path, followed by the
\* separator when its tilde-expanded form is a directory
CompletedPath(selected_file) ==
    IF is_dir(expand_tilde(selected_file))
    THEN Append(selected_file, "/")
    ELSE selected_file

\* App::auto_complete
auto_complete(self) ==
    IF ~self.config.features.enable_auto_complete THEN self
    ELSE IF self.mode = "FileSelection" /\ IsSome(self.list_state)
            /\ IsSome(Get(self.filtered_files, Unwrap(self.list_state)))
    THEN LET selected_file == Unwrap(Get(self.filtered_files, Unwrap(self.list_state)))
             new_path == CompletedPath(selected_file)
             last_space_idx == rfind(self.search_query, " ")
             new_query == IF IsSome(last_space_idx)
                          THEN SubSeq(self.search_query, 1, Unwrap(last_space_idx) + 1)
                               \o new_path
                          ELSE new_path
         IN  update_filter([self EXCEPT !.search_query = new_query])
    ELSE self

\* toggle_favorite as it would be if the catalog were not ranked again
toggle_favorite_Unranked(self) ==
    IF self.mode = "AppSelection" /\ IsSome(self.list_state)
       /\ IsSome(Get(self.filtered_entries, Unwrap(self.list_state)))
    THEN LET entry == Unwrap(Get(self.filtered_entries, Unwrap(self.list_state)))
             a == [self EXCEPT !.history = HistoryToggleFavorite(self.history, entry.name)]
         IN  update_filter(a)
    ELSE self

\* App::toggle_favorite
toggle_favorite(self) ==
    IF self.mode = "AppSelection" /\ IsSome(self.list_state)
       /\ IsSome(Get(self.filtered_entries, Unwrap(self.list_state)))
    THEN LET entry == Unwrap(Get(self.filtered_entries, Unwrap(self.list_state)))
             a == [self EXCEPT !.history = HistoryToggleFavorite(self.history, entry.name)]
         IN  update_filter(sort_entries(a))
    ELSE self

\* ------------------------------------------------------------------------
\* Launch composer and process host
\* ------------------------------------------------------------------------

\* The desktop-entry placeholders (app.rs lines 351, 364, 371)
Placeholders ==
    { <<"%", c>> : c \in {"f", "F", "u", "U"} }

XDG_OPEN == <<"x", "d", "g", "-", "o", "p", "e", "n">>

\* DropPlaceholders as it would be if only %f and %u were placeholders
DropPlaceholders_LowerOnly(args) ==
    SelectSeq(args, LAMBDA arg : arg \notin {<<"%", "f">>, <<"%", "u">>})

RECURSIVE DropPlaceholders(_)
\* `for arg in args { if !placeholder { final_args.push(arg) } }`
DropPlaceholders(args) ==
    IF args = <<>> THEN <<>>
    ELSE (IF Head(args) \in Placeholders THEN <<>> ELSE <<Head(args)>>)
         \o DropPlaceholders(Tail(args))

RECURSIVE ReplacePlaceholders(_, _)
\* `for arg in args { if placeholder { extend(expanded) } else { push(arg) } }`
ReplacePlaceholders(args, expanded_launch_args) ==
    IF args = <<>> THEN <<>>
    ELSE (IF Head(args) \in Placeholders THEN expanded_launch_args ELSE <<Head(args)>>)
         \o ReplacePlaceholders(Tail(args), expanded_launch_args)

\* CurrentLaunchArgs as it would be if the typed arguments were passed on
CurrentLaunchArgs_AsTyped(self, launch_args, i) ==
    launch_args

\* Lines 334-342: the pending arguments, the last one overwritten by the
\* selected file in FileSelection
CurrentLaunchArgs(self, launch_args, i) ==
    IF self.mode = "FileSelection" /\ IsSome(Get(self.filtered_files, i))
       /\ launch_args # <<>>
    THEN [launch_args EXCEPT ![Len(launch_args)] =
             Unwrap(Get(self.filtered_files, i))]
    ELSE launch_args

\* Lines 344-347: every argument tilde-expanded
ExpandAll(current_launch_args) ==
    [k \in 1..Len(current_launch_args) |-> expand_tilde(current_launch_args[k])]

\* Substitute as it would be if the arguments were appended in any case
Substitute_AppendAlways(args, expanded_launch_args) ==
    ReplacePlaceholders(args, expanded_launch_args) \o expanded_launch_args

\* Lines 349-361: placeholders replaced, or the arguments appended when the
\* template has none
Substitute(args, expanded_launch_args) ==
    IF \E k \in 1..Len(args) : args[k] \in Placeholders
    THEN ReplacePlaceholders(args, expanded_launch_args)
    ELSE ReplacePlaceholders(args, expanded_launch_args) \o expanded_launch_args

\* Lines 330-375: final_args for the template `args` of the chosen entry
ComposeArgs(self, args, i) ==
    IF self.config.features.enable_launch_args /\ IsSome(self.launch_args)
    THEN Substitute(args,
                    ExpandAll(CurrentLaunchArgs(self, Unwrap(self.launch_args), i)))
    ELSE DropPlaceholders(args)

\* A request to the process host and what it answered
SpawnRequest(kind, program, args, stdin, ok) ==
    [kind |-> kind, program |-> program, args |-> args, stdin |-> stdin, ok |-> ok]

\* spawn_command as it would be if a refused spawn ended the session too
spawn_command_QuitAnyway(self, cmd, args, entry_name, io) ==
    [app  |-> [self EXCEPT !.should_quit = TRUE, !.status_message = None],
     host |-> <<SpawnRequest("spawn_detached", cmd, args, None, io.spawn_ok)>>]

\* spawn_command as it would be if a failed spawn left no message
spawn_command_Silent(self, cmd, args, entry_name, io) ==
    [app  |-> IF io.spawn_ok
              THEN [self EXCEPT !.should_quit = TRUE, !.status_message = None]
              ELSE self,
     host |-> <<SpawnRequest("spawn_detached", cmd, args, None, io.spawn_ok)>>]

\* App::spawn_command; io.spawn_ok is the result of command.spawn()
spawn_command(self, cmd, args, entry_name, io) ==
    [app  |-> IF io.spawn_ok
              THEN [self EXCEPT !.should_quit = TRUE, !.status_message = None]
              ELSE [self EXCEPT !.status_message =
                       Some([what |-> "Failed to launch", name |-> entry_name])],
     host |-> <<SpawnRequest("spawn_detached", cmd, args, None, io.spawn_ok)>>]

\* open_file as it would be if every path went to the open helper
open_file_HelperOnly(self, path_str, io) ==
    [app  |-> IF io.spawn_ok
              THEN [self EXCEPT !.should_quit = TRUE, !.status_message = None]
              ELSE [self EXCEPT !.status_message =
                       Some([what |-> "Failed to open", name |-> path_str])],
     host |-> <<SpawnRequest("spawn_detached", XDG_OPEN,
                             <<expand_tilde(path_str)>>, None, io.spawn_ok)>>]

\* App::open_file
open_file(self, path_str, io) ==
    LET expanded == expand_tilde(path_str)
        meta == Metadata(Resolve(expanded))
        is_executable == IsSome(meta) /\ Unwrap(meta).mode_exec
        program == IF is_executable /\ ~is_dir(expanded) THEN expanded ELSE XDG_OPEN
        args == IF is_executable /\ ~is_dir(expanded) THEN <<>> ELSE <<expanded>>
    IN  [app  |-> IF io.spawn_ok
                  THEN [self EXCEPT !.should_quit = TRUE, !.status_message = None]
                  ELSE [self EXCEPT !.status_message =
                           Some([what |-> "Failed to open", name |-> path_str])],
         host |-> <<SpawnRequest("spawn_detached", program, args, None, io.spawn_ok)>>]

\* The flags the validation run may receive (app.rs line 423)
ValidationSafeFlags ==
    { <<"-", c>> : c \in {"u", "g", "h", "p", "n", "k", "S"} }

\* FilterValidationArgs as it would be if every flag were passed on
FilterValidationArgs_All(sudo_args) ==
    sudo_args

RECURSIVE FilterValidationArgs(_)
FilterValidationArgs(sudo_args) ==
    IF sudo_args = <<>> THEN <<>>
    ELSE (IF Head(sudo_args) \in ValidationSafeFlags
             \/ ~starts_with(Head(sudo_args), <<"-">>)
          THEN <<Head(sudo_args)>> ELSE <<>>)
         \o FilterValidationArgs(Tail(sudo_args))

\* Retry as it would be if no fresh prompt followed the message
Retry_NoPrompt(self, msg) ==
    [self EXCEPT !.sudo_log = Append(self.sudo_log, msg),
                 !.sudo_password = <<>>]

\* Retry as it would be if the typed password were kept
Retry_KeepPassword(self, msg) ==
    [self EXCEPT !.sudo_log = self.sudo_log \o <<msg, "Password: ">>]

\* The three statements every failed validation ends with: the message and
\* a fresh prompt pushed to sudo_log, sudo_password cleared
Retry(self, msg) ==
    [self EXCEPT !.sudo_log = self.sudo_log \o <<msg, "Password: ">>,
                 !.sudo_password = <<>>]

\* SudoLaunch as it would be if the session ended whatever the spawn gave
SudoLaunch_QuitAnyway(self, validated, launch_argv, io) ==
    [app |-> [self EXCEPT !.should_quit = TRUE, !.status_message = None],
     host |-> <<validated,
                SpawnRequest("spawn_piped", SUDO, launch_argv,
                             IF io.spawn_ok THEN Some(self.sudo_password) ELSE None,
                             io.spawn_ok)>>]

\* Lines 452-482: the launch that follows a successful validation
SudoLaunch(self, validated, launch_argv, io) ==
    IF io.spawn_ok
    THEN [app |-> [self EXCEPT !.should_quit = TRUE, !.status_message = None],
          host |-> <<validated,
                     SpawnRequest("spawn_piped", SUDO, launch_argv,
                                  Some(self.sudo_password), TRUE)>>]
    ELSE [app |-> [self EXCEPT !.status_message =
                      Some([what |-> "Failed to launch sudo", name |-> <<>>])],
          host |-> <<validated,
                     SpawnRequest("spawn_piped", SUDO, launch_argv, None, FALSE)>>]

\* App::verify_sudo_and_launch.  io.validate_spawn_ok, io.write_ok, io.wait
\* ("err", "success", "failure") and io.spawn_ok are the results of the
\* validation spawn, the writeln! to its stdin, child.wait() and the launch
\* spawn.
verify_sudo_and_launch(self, io) ==
    IF ~IsSome(self.pending_command) THEN [app |-> self, host |-> <<>>]
    ELSE
    LET cmd == Unwrap(self.pending_command)[1]
        args == Unwrap(self.pending_command)[2]
        sudo_args == Unwrap(self.pending_command)[3]
        validation_args ==
            FilterValidationArgs(sudo_args) \o << <<"-", "v">>, <<"-", "S">>, <<"-", "k">> >>
        launch_argv ==
            sudo_args \o << <<"-", "b">>, <<"-", "S">> >> \o <<cmd>> \o args
        Validation(stdin, ok) ==
            SpawnRequest("spawn_piped", SUDO, validation_args, stdin, ok)
    IN  IF ~io.validate_spawn_ok
        THEN [app |-> Retry(self, "Failed to run sudo"),
              host |-> <<Validation(None, FALSE)>>]
        ELSE IF ~io.write_ok
        THEN [app |-> Retry(self, "Failed to write password"),
              host |-> <<Validation(None, TRUE)>>]
        ELSE IF io.wait = "err"
        THEN [app |-> Retry(self, "Sudo check failed"),
              host |-> <<Validation(Some(self.sudo_password), TRUE)>>]
        ELSE IF io.wait = "failure"
        THEN [app |-> Retry(self, "Sorry, try again."),
              host |-> <<Validation(Some(self.sudo_password), TRUE)>>]
        ELSE SudoLaunch(self, Validation(Some(self.sudo_password), TRUE),
                        launch_argv, io)

\* EnterSudoPrompt as it would be without the two resets
EnterSudoPrompt_NoReset(self, cmd, final_args) ==
    [self EXCEPT !.mode = "SudoPassword",
                 !.pending_command = Some(<<cmd, final_args, self.sudo_args>>)]

\* Lines 378-381: the hand-over to the password prompt
EnterSudoPrompt(self, cmd, final_args) ==
    [self EXCEPT !.mode = "SudoPassword",
                 !.sudo_password = <<>>,
                 !.sudo_log = <<"Password: ">>,
                 !.pending_command = Some(<<cmd, final_args, self.sudo_args>>)]

\* App::launch_selected
launch_selected(self, io) ==
    IF self.mode = "SudoPassword" THEN verify_sudo_and_launch(self, io)
    ELSE IF ~IsSome(self.list_state) THEN [app |-> self, host |-> <<>>]
    ELSE
    LET i == Unwrap(self.list_state)
        selected_file == Get(self.filtered_files, i)
        app_entry == IF self.mode = "FileSelection"
                     THEN Get(self.filtered_entries, 0)
                     ELSE Get(self.filtered_entries, i)
    IN  IF self.mode = "FileSelection" /\ self.filtered_entries = <<>>
        THEN IF IsSome(selected_file)
             THEN open_file(self, Unwrap(selected_file), io)
             ELSE [app |-> self, host |-> <<>>]
        ELSE IF ~IsSome(app_entry) THEN [app |-> self, host |-> <<>>]
        ELSE
        LET entry == Unwrap(app_entry)
            counted == [self EXCEPT !.history = increment(self.history, entry.name)]
        IN  IF entry.exec_args = <<>> THEN [app |-> counted, host |-> <<>>]
            ELSE
            LET cmd == Head(entry.exec_args)
                final_args == ComposeArgs(counted, Tail(entry.exec_args), i)
            IN  IF starts_with(counted.search_query, SUDO)
                THEN [app |-> EnterSudoPrompt(counted, cmd, final_args),
                      host |-> <<>>]
                ELSE spawn_command(counted, cmd, final_args, entry.name, io)

\* ------------------------------------------------------------------------
\* Bounds and inputs
\* ------------------------------------------------------------------------

\* Failed password attempts in one prompt
MaxAttempts == 1

\* Characters of a typed password
MaxPasswordLen == 1

\* Spawns the process host refuses in one session
MaxFailures == 1

Entry(name, exec_args) == [name |-> name, exec_args |-> exec_args]

EntryFiFo ==
    Entry(<<"F", "i", " ", "F", "o">>,
          << <<"f", "o">>, <<"%", "f">>, <<"-", "n">>, <<"%", "U">> >>)

EntrySudoku ==
    Entry(<<"S", "u", "d", "o", "k", "u">>, << <<"s", "k">>, <<"-", "n">> >>)

\* What scan_desktop_files returns: no entry at all, or two entries in its
\* (lower-cased name, name) order
Catalogs == { <<>>, <<EntryFiFo, EntrySudoku>> }

\* AppConfig.features
AllFeatures ==
    [enable_file_explorer : BOOLEAN, enable_launch_args : BOOLEAN,
     enable_auto_complete : BOOLEAN, dirs_first : BOOLEAN,
     recent_first : BOOLEAN]

\* The configurations a session starts with: every combination of the two
\* capabilities update_filter reads together (file explorer, launch
\* arguments) with the other three switches on, and both capabilities on
\* with the other three off.
Configs ==
    { [features |-> f] : f \in
        { f \in AllFeatures :
            \/ f.enable_auto_complete /\ f.dirs_first /\ f.recent_first
            \/ /\ f.enable_file_explorer /\ f.enable_launch_args
               /\ ~f.enable_auto_complete /\ ~f.dirs_first /\ ~f.recent_first } }

\* The texts a user types: every prefix of one of these queries
SampleQueries ==
    LET sp == <<" ">>
        fi == <<"f", "i">>
        fo == <<"f", "o">>
        Q(words) == join(words, sp)
    IN  { Q(<<fi, fo, <<"-", "p">>, <<"~", "/", "D", "/">> >>),
          Q(<<fi, fo, <<"A">> >>),
          Q(<<<<"F", "o">>, <<"x">> >>),
          Q(<<<<"x">>, fo>>),
          sp \o fo \o sp,
          sp \o SUDO,
          <<"~", "/", "D", "/">>,
          <<"~", "/", ".", "c">>,
          <<"~", "/", "k", "/">>,
          <<"/", "h", "x", "/">>,
          <<"s", "u", "d", "o", "k", "u">>,
          <<"o">>,
          Q(<<SUDO, <<"-", "u">>, <<"r">>, fo>>) \o sp \o sp \o <<"A">>,
          Q(<<SUDO, <<"-", "E">>, <<"~", "/">> >>) }

Typable ==
    UNION { { SubSeq(q, 1, n) : n \in 0..Len(q) } : q \in SampleQueries }

\* The characters of a typed password
PasswordChars == {"p"}

\* ------------------------------------------------------------------------
\* State
\* ------------------------------------------------------------------------
VARIABLES
    search_query, entries, filtered_entries, list_state, should_quit, config,
    status_message, launch_args, mode, filtered_files, history, sudo_password,
    pending_command, sudo_log, sudo_args,
    host,       \* the requests the last handler made to the process host
    failures    \* how many spawns the process host has refused so far

app_vars ==
    <<search_query, entries, filtered_entries, list_state, should_quit, config,
      status_message, launch_args, mode, filtered_files, history, sudo_password,
      pending_command, sudo_log, sudo_args>>

vars == <<app_vars, host, failures>>

\* The App struct
Self ==
    [search_query |-> search_query, entries |-> entries,
     filtered_entries |-> filtered_entries, list_state |-> list_state,
     should_quit |-> should_quit, config |-> config,
     status_message |-> status_message, launch_args |-> launch_args,
     mode |-> mode, filtered_files |-> filtered_files, history |-> history,
     sudo_password |-> sudo_password, pending_command |-> pending_command,
     sudo_log |-> sudo_log, sudo_args |-> sudo_args]

\* The requests the process host refused
Refused(requests) ==
    {k \in 1..Len(requests) : ~requests[k].ok}

\* The spawns that can fail on this machine: the sudo helper, the binary of
\* "Fi Fo", and the generic open helper on the plain file /h/A.  Every other
\* spawn succeeds.
HostMayRefuse(request) ==
    \/ request.kind = "spawn_piped"
    \/ request.program = Head(EntryFiFo.exec_args)
    \/ request.program = XDG_OPEN /\ request.args = << Home \o <<"/", "A">> >>

\* A handler leaves the App as `a`, having made `requests`
Commit(a, requests) ==
    \E b \in {a} :
        /\ search_query' = b.search_query
        /\ entries' = b.entries
        /\ filtered_entries' = b.filtered_entries
        /\ list_state' = b.list_state
        /\ should_quit' = b.should_quit
        /\ config' = b.config
        /\ status_message' = b.status_message
        /\ launch_args' = b.launch_args
        /\ mode' = b.mode
        /\ filtered_files' = b.filtered_files
        /\ history' = b.history
        /\ sudo_password' = b.sudo_password
        /\ pending_command' = b.pending_command
        /\ sudo_log' = b.sudo_log
        /\ sudo_args' = b.sudo_args
        /\ host' = requests
        /\ \A k \in Refused(requests) : HostMayRefuse(requests[k])
        /\ failures' = failures + Cardinality(Refused(requests))
        /\ failures' <= MaxFailures

\* App::new
new(cfg, status, scanned, loaded) ==
    LET app == [search_query |-> <<>>, entries |-> scanned,
                filtered_entries |-> scanned, list_state |-> Some(0),
                should_quit |-> FALSE, config |-> cfg,
                status_message |-> status, launch_args |-> None,
                mode |-> "AppSelection", filtered_files |-> <<>>,
                history |-> loaded, sudo_password |-> <<>>,
                pending_command |-> None, sudo_log |-> <<>>,
                sudo_args |-> <<>>]
        sorted == sort_entries(app)
    IN  [sorted EXCEPT !.filtered_entries = sorted.entries]

\* History::load with nothing on disk
EmptyHistory == [usage |-> <<>>, favorites |-> <<>>]

Init ==
    \E cfg \in Configs, scanned \in Catalogs :
        LET a == new(cfg, None, scanned, EmptyHistory)
        IN  /\ search_query = a.search_query
            /\ entries = a.entries
            /\ filtered_entries = a.filtered_entries
            /\ list_state = a.list_state
            /\ should_quit = a.should_quit
            /\ config = a.config
            /\ status_message = a.status_message
            /\ launch_args = a.launch_args
            /\ mode = a.mode
            /\ filtered_files = a.filtered_files
            /\ history = a.history
            /\ sudo_password = a.sudo_password
            /\ pending_command = a.pending_command
            /\ sudo_log = a.sudo_log
            /\ sudo_args = a.sudo_args
            /\ host = <<>>
            /\ failures = 0

\* ------------------------------------------------------------------------
\* Key dispatch: one action per key of the event loop
\* ------------------------------------------------------------------------
Running == ~should_quit

\* The keys are dispatched by mode: in the password prompt a character goes
\* to the password and Enter validates it; the other keys act on the query
\* and the selection outside the prompt.
InPasswordPrompt == mode = "SudoPassword"

\* KeyCode::Char(c) outside the password prompt
KeyChar(c) ==
    /\ Running /\ ~InPasswordPrompt
    /\ Append(search_query, c) \in Typable
    /\ Commit(update_filter([Self EXCEPT !.search_query = Append(search_query, c)]),
              <<>>)

\* KeyCode::Backspace outside the password prompt (String::pop)
KeyBackspace ==
    /\ Running /\ ~InPasswordPrompt
    /\ Commit(update_filter([Self EXCEPT !.search_query =
                  IF search_query = <<>> THEN <<>>
                  ELSE SubSeq(search_query, 1, Len(search_query) - 1)]),
              <<>>)

\* KeyCode::Up / KeyCode::Down
KeyUpDown(delta) ==
    /\ Running /\ ~InPasswordPrompt
    /\ Commit(move_selection(Self, delta), <<>>)

\* Left: jump to the first item
KeyLeft ==
    /\ Running /\ ~InPasswordPrompt
    /\ Commit(select_first(Self), <<>>)

\* Right: jump to the last item
KeyRight ==
    /\ Running /\ ~InPasswordPrompt
    /\ Commit(select_last(Self), <<>>)

\* Tab
KeyTab ==
    /\ Running /\ ~InPasswordPrompt
    /\ Commit(auto_complete(Self), <<>>)

\* The favorite chord
KeyFavorite ==
    /\ Running /\ ~InPasswordPrompt
    /\ Commit(toggle_favorite(Self), <<>>)

\* KeyCode::Enter outside the password prompt
KeyEnter ==
    /\ Running /\ ~InPasswordPrompt
    /\ \E ok \in BOOLEAN :
          LET r == launch_selected(Self,
                       [spawn_ok |-> ok, validate_spawn_ok |-> TRUE,
                        write_ok |-> TRUE, wait |-> "success"])
          IN  Commit(r.app, r.host)

\* What the two helper processes of the handshake may answer; a result the
\* handler never gets to read is fixed to the successful one.
VerifyOutcomes ==
    { io \in [spawn_ok : BOOLEAN, validate_spawn_ok : BOOLEAN,
              write_ok : BOOLEAN, wait : {"err", "success", "failure"}] :
        /\ ~io.validate_spawn_ok => io.write_ok
        /\ ~io.write_ok => io.wait = "success"
        /\ io.wait # "success" => io.spawn_ok }

\* KeyCode::Enter in the password prompt
KeyEnterPassword ==
    /\ Running /\ InPasswordPrompt
    /\ Len(sudo_log) < 1 + 2 * MaxAttempts
    /\ \E io \in VerifyOutcomes :
          LET r == launch_selected(Self, io)
          IN  Commit(r.app, r.host)

\* KeyCode::Char(c) in the password prompt
KeyCharPassword(c) ==
    /\ Running /\ InPasswordPrompt
    /\ Len(sudo_password) < MaxPasswordLen
    /\ Commit([Self EXCEPT !.sudo_password = Append(sudo_password, c)], <<>>)

\* cancel as it would be if the pending command were kept
cancel_KeepPending(self) ==
    [self EXCEPT !.mode = "AppSelection"]

\* The cancel of the password prompt: the pending command is abandoned and
\* the application list is shown again.  No key of the keyset above is bound
\* to it.
cancel(self) ==
    [self EXCEPT !.mode = "AppSelection", !.pending_command = None]

\* KeyCode::Esc
KeyEsc ==
    /\ Running
    /\ Commit([Self EXCEPT !.should_quit = TRUE], <<>>)

Next ==
    \/ \E c \in DOMAIN Code : KeyChar(c)
    \/ KeyBackspace
    \/ \E delta \in {-1, 1} : KeyUpDown(delta)
    \/ KeyLeft
    \/ KeyRight
    \/ KeyTab
    \/ KeyFavorite
    \/ KeyEnter
    \/ KeyEnterPassword
    \/ \E c \in PasswordChars : KeyCharPassword(c)
    \/ KeyEsc

Spec == Init /\ [][Next]_vars

\* ------------------------------------------------------------------------
\* Properties
\* ------------------------------------------------------------------------

\* The list the selection indexes
ActiveList ==
    IF mode = "AppSelection" THEN filtered_entries ELSE filtered_files

\* The first whitespace-delimited token of q is `sudo`
FirstTokenIsSudo(q) ==
    LET parts == split_whitespace(q)
    IN  parts # <<>> /\ parts[1] = SUDO

\* q begins with the token `sudo`
BeginsWithSudoToken(q) ==
    starts_with(q, SUDO) /\ FirstTokenIsSudo(q)

DirectLaunchRequested ==
    \E k \in 1..Len(host) : host[k].kind = "spawn_detached"

\* C1: in AppSelection and FileSelection the selected index is None iff the
\* active list is empty, and otherwise lies in 0 .. length-1.
C1_SelectionInRange ==
    mode \in {"AppSelection", "FileSelection"} =>
        /\ (list_state = None) <=> (ActiveList = <<>>)
        /\ IsSome(list_state) => Unwrap(list_state) \in 0..(Len(ActiveList) - 1)

\* C2: a handler run on a query that begins with the token `sudo` never asks
\* the process host for a direct detached launch.
C2_SudoNeverLaunchesDirectly ==
    BeginsWithSudoToken(search_query) => ~DirectLaunchRequested

\* C3: the password prompt is entered only from a query whose first token is
\* exactly `sudo`.
C3_PromptOnlyForSudoToken ==
    mode = "SudoPassword" => FirstTokenIsSudo(search_query)

\* The flags the claim says take a value
ClaimValueFlags ==
    { <<"-", "C">>, <<"-", "g">>, <<"-", "h">>, <<"-", "p">>,
      <<"-", "r">>, <<"-", "t">>, <<"-", "U">>, <<"-", "u">> }

RECURSIVE ClaimIsValue(_, _)
\* Token j of a sudo query (token 1 is `sudo`) is the value of the flag
\* before it
ClaimIsValue(parts, j) ==
    j > 2 /\ parts[j - 1] \in ClaimValueFlags /\ ~ClaimIsValue(parts, j - 1)

\* The first token after `sudo` that is neither a flag nor a flag's value
\* (Len(parts) + 1 when there is none)
ClaimFirstCommandToken(parts) ==
    CHOOSE j \in 2..(Len(parts) + 1) :
        /\ j = Len(parts) + 1
           \/ (~ClaimIsValue(parts, j) /\ ~starts_with(parts[j], <<"-">>))
        /\ \A i \in 2..(j - 1) :
              ClaimIsValue(parts, i) \/ starts_with(parts[i], <<"-">>)

ClaimSudoFlags(q) ==
    LET parts == split_whitespace(q)
    IN  SubSeq(parts, 2, ClaimFirstCommandToken(parts) - 1)

ClaimEffectiveQuery(q) ==
    IF BeginsWithSudoToken(q)
    THEN LET parts == split_whitespace(q)
         IN  join(SubSeq(parts, ClaimFirstCommandToken(parts), Len(parts)), <<" ">>)
    ELSE q

\* What the recomputation derives from the query, but for the selection and
\* the sudo flags
Filtered(a) ==
    <<a.mode, a.filtered_entries, a.filtered_files, a.launch_args>>

\* The session is running and shows a selection list
Selecting ==
    ~should_quit /\ mode # "SudoPassword"

\* C4: while a selection list is shown, for a query that begins with the
\* token `sudo`, sudo_args are the tokens after it up to the first one that
\* is neither a flag nor the value of one of the value-taking flags, in
\* order; the rest joined by single spaces is the effective query, and what
\* is filtered is what that query alone would give.
C4_SudoPrefixExtraction ==
    Selecting /\ BeginsWithSudoToken(search_query) =>
        LET effective == ClaimEffectiveQuery(search_query)
        IN  /\ sudo_args = ClaimSudoFlags(search_query)
            /\ SudoPrefix(search_query, <<>>).query_slice = effective
            /\ Filtered(Self) = Filtered(update_filter(
                   [Self EXCEPT !.search_query = effective]))

C4_Witness ==
    /\ search_query = <<"s", "u", "d", "o", " ", "-", "u", " ", "r", " ",
                        "f", "o", " ", " ", "A">>
    /\ sudo_args = << <<"-", "u">>, <<"r">> >>
    /\ filtered_entries = <<EntryFiFo>>
    /\ launch_args = Some(<< <<"A">> >>)

\* C5: while a selection list is shown, for a query that does not begin
\* with the token `sudo`, sudo_args is empty and the effective query is the
\* raw query.
C5_NonSudoQuery ==
    Selecting /\ ~BeginsWithSudoToken(search_query) =>
        /\ sudo_args = <<>>
        /\ SudoPrefix(search_query, sudo_args).query_slice = search_query

C5_Witness ==
    /\ search_query = <<"s", "u", "d", "o", "k">>
    /\ sudo_args = <<>>
    /\ filtered_entries = <<EntrySudoku>>

\* The trimmed effective query the claims speak of
ClaimTrimmed ==
    trim(ClaimEffectiveQuery(search_query))

ClaimPathLike(trimmed) ==
    starts_with(trimmed, <<"~">>) \/ starts_with(trimmed, <<"/">>)

\* The catalog entries whose lower-cased name subsequence-matches the
\* lower-cased q, in catalog order
ClaimMatches(catalog, q) ==
    SelectSeq(catalog,
              LAMBDA e : fuzzy_match(to_lowercase(q), to_lowercase(e.name)))

\* A query edit: a step that changes search_query
QueryEdit ==
    search_query' # search_query

\* C6: while a selection list is shown: with the file explorer enabled and
\* a trimmed effective query that starts with `~` or `/`, the mode is
\* FileSelection, filtered_entries is empty, launch_args is absent and
\* filtered_files is what list_files gives for the trimmed string; with the
\* file explorer disabled the mode is never FileSelection and no file is
\* listed.
C6_ModeSelection ==
    Selecting =>
        LET trimmed == ClaimTrimmed
        IN  /\ (config.features.enable_file_explorer /\ ClaimPathLike(trimmed)) =>
                   /\ mode = "FileSelection"
                   /\ filtered_entries = <<>>
                   /\ launch_args = None
                   /\ filtered_files
                          = list_files(trimmed, config.features.dirs_first)
            /\ ~config.features.enable_file_explorer =>
                   /\ mode = "AppSelection"
                   /\ filtered_files = <<>>
                   /\ ClaimPathLike(trimmed) /\ ClaimMatches(entries, trimmed) # <<>> =>
                          filtered_entries = ClaimMatches(entries, trimmed)

C6_Witness ==
    /\ search_query = <<"~", "/", "D", "/">>
    /\ mode = "FileSelection"
    /\ filtered_files = << <<"~", "/", "D", "/", "x">> >>
    /\ list_state = Some(0)

\* What C7 says of the state a query edit leaves
C7_Post(a) ==
    LET trimmed == trim(ClaimEffectiveQuery(a.search_query))
        matches == ClaimMatches(a.entries, trimmed)
    IN  ~(a.config.features.enable_file_explorer /\ ClaimPathLike(trimmed)) =>
            IF trimmed = <<>>
            THEN /\ a.filtered_entries = a.entries
                 /\ a.entries # <<>> => a.list_state = Some(0)
            ELSE matches # <<>> =>
                     /\ a.filtered_entries = matches
                     /\ a.mode = "AppSelection"
                     /\ a.launch_args = None
                     /\ a.list_state = Some(0)

\* C7: after a query edit whose trimmed effective query is empty,
\* filtered_entries is the whole catalog and index 0 is selected when it is
\* non-empty; after one whose query matches at least one entry,
\* filtered_entries is exactly the matching entries in catalog order, the
\* mode is AppSelection and launch_args is absent.
C7_ApplicationFiltering ==
    [][QueryEdit => C7_Post(Self')]_vars

C7_Witness ==
    /\ search_query = <<"o">>
    /\ filtered_entries = <<EntryFiFo, EntrySudoku>>
    /\ mode = "AppSelection"
    /\ launch_args = None
    /\ list_state = Some(0)

ClaimPrefix(words, k) ==
    join(SubSeq(words, 1, k), <<" ">>)

\* The prefix lengths the fallback may choose from
ClaimPrefixLengths(words) ==
    { k \in 1..(Len(words) - 1) : ClaimMatches(entries, ClaimPrefix(words, k)) # <<>> }

ClaimLongest(lengths) ==
    CHOOSE k \in lengths : \A j \in lengths : j <= k

\* The whole effective query is an application query that matches no entry
ClaimInFallback(trimmed) ==
    /\ ~(config.features.enable_file_explorer /\ ClaimPathLike(trimmed))
    /\ trimmed # <<>>
    /\ ClaimMatches(entries, trimmed) = <<>>

\* C8: while a selection list is shown and the whole effective query of n
\* words matches no entry, the chosen prefix is the longest one of 1 .. n-1
\* words that matches an entry: filtered_entries is its match set and, with
\* launch arguments enabled, launch_args is the words after it; when no
\* prefix matches, filtered_entries is empty and launch_args is absent.
C8_FallbackPrefixMaximal ==
    Selecting =>
        LET trimmed == ClaimTrimmed
            words == split_whitespace(trimmed)
            lengths == ClaimPrefixLengths(words)
        IN  ClaimInFallback(trimmed) =>
                IF lengths = {}
                THEN filtered_entries = <<>> /\ launch_args = None
                ELSE /\ filtered_entries
                            = ClaimMatches(entries, ClaimPrefix(words, ClaimLongest(lengths)))
                     /\ config.features.enable_launch_args =>
                            launch_args = Some(SubSeq(words, ClaimLongest(lengths) + 1,
                                                      Len(words)))

C8_Witness ==
    /\ search_query = <<"f", "i", " ", "f", "o", " ", "-", "p">>
    /\ filtered_entries = <<EntryFiFo>>
    /\ launch_args = Some(<< <<"-", "p">> >>)

\* The fallback found a prefix, launch arguments are enabled and the last
\* trailing word does not start with `-`
ClaimLookupCase(trimmed, words) ==
    /\ ClaimInFallback(trimmed)
    /\ ClaimPrefixLengths(words) # {}
    /\ config.features.enable_launch_args
    /\ ~starts_with(words[Len(words)], <<"-">>)

\* What follows a lookup on the last trailing word
ClaimLookupOutcome(words, files) ==
    IF files # <<>>
    THEN /\ mode = "FileSelection"
         /\ filtered_files = files
         /\ filtered_entries
                = ClaimMatches(entries,
                               ClaimPrefix(words, ClaimLongest(ClaimPrefixLengths(words))))
         /\ filtered_entries # <<>>
    ELSE mode = "AppSelection"

\* C9 as stated: whenever launch arguments are enabled and the last trailing
\* word does not start with `-`, the lookup on it decides the mode.
C9_LookupWheneverLaunchArgs ==
    Selecting =>
        LET trimmed == ClaimTrimmed
            words == split_whitespace(trimmed)
        IN  ClaimLookupCase(trimmed, words) =>
                ClaimLookupOutcome(words,
                    list_files(words[Len(words)], config.features.dirs_first))

\* C9, amended: the lookup is made only when the file explorer is enabled as
\* well; then a non-empty result gives FileSelection with filtered_files the
\* result and filtered_entries the non-empty match set, and an empty one
\* leaves AppSelection. With the file explorer disabled the mode stays
\* AppSelection and no file is listed.
C9_LookupNeedsFileExplorer ==
    Selecting =>
        LET trimmed == ClaimTrimmed
            words == split_whitespace(trimmed)
        IN  ClaimLookupCase(trimmed, words) =>
                IF config.features.enable_file_explorer
                THEN ClaimLookupOutcome(words,
                         list_files(words[Len(words)], config.features.dirs_first))
                ELSE mode = "AppSelection" /\ filtered_files = <<>>

C9_Witness ==
    /\ search_query = <<"f", "i", " ", "f", "o", " ", "A">>
    /\ mode = "FileSelection"
    /\ filtered_files = << <<".", "/", "A">> >>
    /\ filtered_entries = <<EntryFiFo>>

\* self with every derived field replaced by a value no recomputation left
Scramble(self) ==
    [self EXCEPT !.mode = "FileSelection",
                 !.filtered_entries = <<EntrySudoku, EntrySudoku>>,
                 !.filtered_files = << <<"z">> >>,
                 !.launch_args = Some(<< <<"z">> >>),
                 !.sudo_args = << <<"-", "z">> >>,
                 !.list_state = Some(1)]

\* The fields update_filter is said to leave alone
Kept(a) ==
    <<a.search_query, a.entries, a.config, a.sudo_password, a.pending_command,
      a.sudo_log, a.status_message, a.should_quit, a.history>>

\* C10: in every state of a running session update_filter leaves
\* sudo_password, pending_command, sudo_log, status_message, should_quit and
\* the history unchanged; and while a selection list is shown, what it
\* derives does not depend on the derived fields it starts from and a second
\* update_filter changes nothing.
C10_RecomputeFromScratch ==
    [](~should_quit =>
          LET once == update_filter(Self)
          IN  /\ Kept(once) = Kept(Self)
              /\ mode # "SudoPassword" =>
                     /\ update_filter(Scramble(Self)) = once
                     /\ update_filter(once) = once)

C10_Witness ==
    /\ Self = update_filter(Self)
    /\ mode = "FileSelection"
    /\ filtered_entries # <<>>
    /\ launch_args # None
    /\ sudo_args # <<>>
    /\ history.favorites # <<>>
    /\ ~should_quit


\* The list the selection of `a` indexes
ActiveOf(a) ==
    IF a.mode = "AppSelection" THEN a.filtered_entries ELSE a.filtered_files

\* What C11 says of the state a recomputation leaves
C11_Post(a) ==
    a.list_state = IF ActiveOf(a) # <<>> THEN Some(0) ELSE None

\* C11: while a selection list is shown, whatever index is selected, the
\* state update_filter leaves has index 0 selected if the active list of its
\* mode is non-empty and no index otherwise; so has every state auto_complete
\* or toggle_favorite leaves when they recompute.
C11_SelectionReset ==
    Selecting =>
        /\ C11_Post(update_filter(Self))
        /\ LET completed == auto_complete(Self)
           IN  completed # Self => C11_Post(completed)
        /\ LET toggled == toggle_favorite(Self)
           IN  toggled # Self => C11_Post(toggled)

C11_Witness ==
    /\ Selecting
    /\ list_state = Some(1)
    /\ toggle_favorite(Self) # Self
    /\ toggle_favorite(Self).list_state = Some(0)
    /\ update_filter(Self).list_state = Some(0)

\* The deltas move_selection is tried with
MoveDeltas == (0 - 6)..6

\* The index in 0 .. len-1 that differs from x by a multiple of len
ClaimWrap(x, len) ==
    CHOOSE k \in 0..(len - 1) : \E m \in (0 - 8)..8 : x = k + m * len

\* A file selection of five paths with index 0 selected
FiveFiles(self) ==
    [self EXCEPT !.mode = "FileSelection",
                 !.filtered_files = << <<"a">>, <<"b">>, <<"c">>, <<"d">>, <<"e">> >>,
                 !.list_state = Some(0)]

\* C12: while a selection list is shown, for every delta of -6 .. 6,
\* move_selection leaves the state as it is when the active list is empty,
\* and otherwise changes nothing but the selected index, which becomes
\* (i + delta) mod length in 0 .. length-1; on a list of five with index 0,
\* delta -1 gives 4 and delta 6 gives 1.
C12_MoveSelectionWraps ==
    Selecting =>
        /\ \A delta \in MoveDeltas :
              LET moved == move_selection(Self, delta)
              IN  /\ ActiveList = <<>> => moved = Self
                  /\ ActiveList # <<>> /\ IsSome(list_state) =>
                         moved = [Self EXCEPT !.list_state =
                                     Some(ClaimWrap(Unwrap(list_state) + delta,
                                                    Len(ActiveList)))]
        /\ move_selection(FiveFiles(Self), 0 - 1).list_state = Some(4)
        /\ move_selection(FiveFiles(Self), 6).list_state = Some(1)

C12_Witness ==
    /\ Selecting
    /\ Len(ActiveList) = 2
    /\ list_state = Some(1)
    /\ host = <<>>
    /\ move_selection(Self, 1).list_state = Some(0)
    /\ move_selection(Self, 0 - 1).list_state = Some(0)
    /\ move_selection(Self, 0 - 3).list_state = Some(0)


\* Every spawn, write and wait of a handler succeeds
AllSucceed ==
    [spawn_ok |-> TRUE, validate_spawn_ok |-> TRUE, write_ok |-> TRUE,
     wait |-> "success"]

\* Enter would launch an application entry of the state `a`
LaunchesEntry(a) ==
    /\ IsSome(a.list_state)
    /\ a.filtered_entries # <<>>
    /\ a.mode = "AppSelection" => Unwrap(a.list_state) < Len(a.filtered_entries)

\* The program and the argument list of the launch that `r` made or holds
\* for the password prompt
ClaimLaunched(r) ==
    IF r.app.mode = "SudoPassword"
    THEN <<Unwrap(r.app.pending_command)[1], Unwrap(r.app.pending_command)[2]>>
    ELSE <<r.host[1].program, r.host[1].args>>

\* The template of the entry the selection of `a` points at in AppSelection
ClaimSelectedTemplate(a) ==
    Tail(a.filtered_entries[Unwrap(a.list_state) + 1].exec_args)

ClaimPlaceholders ==
    { <<"%", "f">>, <<"%", "F">>, <<"%", "u">>, <<"%", "U">> }

\* The template without its placeholder tokens
ClaimStripped(template) ==
    SelectSeq(template, LAMBDA token : token \notin ClaimPlaceholders)

\* `a` with launch arguments pending although the support is disabled
PendingButDisabled(a) ==
    [a EXCEPT !.config.features.enable_launch_args = FALSE,
              !.launch_args = Some(<< <<"z">> >>)]

\* C13: while an application list is shown and Enter would launch an entry,
\* with launch-argument support disabled or no launch arguments pending the
\* launch gets the template tokens after the first, in order, without the
\* tokens %f, %F, %u and %U and nothing more; so it does with arguments
\* pending while the support is disabled.
C13_CompositionWithoutArguments ==
    Selecting /\ mode = "AppSelection" /\ LaunchesEntry(Self) =>
        /\ (~config.features.enable_launch_args \/ launch_args = None) =>
               ClaimLaunched(launch_selected(Self, AllSucceed))[2]
                   = ClaimStripped(ClaimSelectedTemplate(Self))
        /\ ClaimLaunched(launch_selected(PendingButDisabled(Self), AllSucceed))[2]
               = ClaimStripped(ClaimSelectedTemplate(Self))

C13_Witness ==
    /\ should_quit
    /\ mode = "AppSelection"
    /\ launch_args = None
    /\ Len(host) = 1
    /\ host[1].program = <<"f", "o">>
    /\ host[1].args = << <<"-", "n">> >>


\* `~` and a leading `~/` replaced by the home directory
ClaimExpand(arg) ==
    IF arg = <<"~">> THEN Home
    ELSE IF Len(arg) >= 2 /\ arg[1] = "~" /\ arg[2] = "/"
         THEN Home \o Tail(arg)
         ELSE arg

ClaimExpandList(list) ==
    [k \in 1..Len(list) |-> ClaimExpand(list[k])]

RECURSIVE ClaimInPlace(_, _)
\* Every placeholder token of the template replaced by the whole list
ClaimInPlace(template, list) ==
    IF template = <<>> THEN <<>>
    ELSE LET n == Len(template)
         IN  ClaimInPlace(SubSeq(template, 1, n - 1), list)
             \o (IF template[n] \in ClaimPlaceholders THEN list ELSE <<template[n]>>)

\* The composition the claim describes
ClaimComposed(template, list) ==
    IF \A k \in 1..Len(template) : template[k] \notin ClaimPlaceholders
    THEN template \o list
    ELSE ClaimInPlace(template, list)

\* `a` with a single entry of template [-w, %U] selected and the argument
\* ~/a pending
NewWindowExample(a) ==
    [a EXCEPT !.config.features.enable_launch_args = TRUE,
              !.mode = "AppSelection",
              !.search_query = <<>>,
              !.filtered_entries =
                  << Entry(<<"W">>, << <<"w">>, <<"-", "w">>, <<"%", "U">> >>) >>,
              !.list_state = Some(0),
              !.launch_args = Some(<< <<"~", "/", "a">> >>)]

ClaimWithSelectedFile(a) ==
    LET pending == Unwrap(a.launch_args)
    IN  SubSeq(pending, 1, Len(pending) - 1)
        \o <<a.filtered_files[Unwrap(a.list_state) + 1]>>

\* C15: while a file list is shown for a resolved application, Enter
\* launches the first entry of filtered_entries, whichever file is selected,
\* with the arguments composed from the pending arguments whose last element
\* is replaced by the selected file path.
C15_FileSelectionLaunch ==
    Selecting /\ mode = "FileSelection" /\ LaunchesEntry(Self) =>
        LET launched == ClaimLaunched(launch_selected(Self, AllSucceed))
        IN  /\ launched[1] = Head(filtered_entries[1].exec_args)
            /\ launched[2]
                   = ClaimComposed(Tail(filtered_entries[1].exec_args),
                                   ClaimExpandList(ClaimWithSelectedFile(Self)))

C15_Witness ==
    /\ should_quit
    /\ mode = "FileSelection"
    /\ filtered_entries = <<EntryFiFo>>
    /\ list_state = Some(2)
    /\ launch_args = Some(<< <<".", "/">> >>)
    /\ filtered_files[3] = <<".", "/", "A">>
    /\ Len(host) = 1
    /\ host[1].program = <<"f", "o">>
    /\ host[1].args = << <<".", "/", "A">>, <<"-", "n">>, <<".", "/", "A">> >>


\* Every spawn of a handler is refused
SpawnRefused ==
    [AllSucceed EXCEPT !.spawn_ok = FALSE]

\* The fields C16 says a failed launch leaves alone
ClaimListView(a) ==
    <<a.mode, a.search_query, a.filtered_entries, a.filtered_files, a.list_state>>

\* C16: while a selection list is shown, when Enter makes a direct launch or
\* a file open whose spawn is refused, status_message holds an error naming
\* what failed, should_quit stays FALSE and mode, search_query, both filtered
\* lists and the selected index are as before.
C16_LaunchFailureContinues ==
    Selecting =>
        LET r == launch_selected(Self, SpawnRefused)
        IN  r.host # <<>> =>
                /\ IsSome(r.app.status_message)
                /\ Unwrap(r.app.status_message).what
                       \in {"Failed to launch", "Failed to open"}
                /\ Unwrap(r.app.status_message).name # <<>>
                /\ ~r.app.should_quit
                /\ ClaimListView(r.app) = ClaimListView(Self)

C16_Witness ==
    /\ Selecting
    /\ mode = "FileSelection"
    /\ list_state = Some(1)
    /\ Len(host) = 1
    /\ host[1].kind = "spawn_detached" /\ ~host[1].ok
    /\ status_message = Some([what |-> "Failed to launch",
                              name |-> <<"F", "i", " ", "F", "o">>])

\* The final argument list the composer gives for the state `a`
ClaimFinalArgs(a) ==
    LET template == IF a.mode = "FileSelection"
                    THEN Tail(a.filtered_entries[1].exec_args)
                    ELSE ClaimSelectedTemplate(a)
    IN  IF a.config.features.enable_launch_args /\ a.launch_args # None
        THEN ClaimComposed(template,
                 ClaimExpandList(IF a.mode = "FileSelection"
                                 THEN ClaimWithSelectedFile(a)
                                 ELSE Unwrap(a.launch_args)))
        ELSE ClaimStripped(template)

\* The executable of the entry Enter launches in the state `a`
ClaimExecutable(a) ==
    IF a.mode = "FileSelection"
    THEN Head(a.filtered_entries[1].exec_args)
    ELSE Head(a.filtered_entries[Unwrap(a.list_state) + 1].exec_args)

\* `a` with a password and a log left over
Stale(a) ==
    [a EXCEPT !.sudo_password = <<"p">>,
              !.sudo_log = <<"Password: ", "Sorry, try again.", "Password: ">>]

\* What C17 says of the state `r` that Enter leaves from the state `a`
C17_Post(a, r) ==
    /\ r.app.mode = "SudoPassword"
    /\ r.app.sudo_password = <<>>
    /\ r.app.sudo_log = <<"Password: ">>
    /\ r.app.pending_command
           = Some(<<ClaimExecutable(a), ClaimFinalArgs(a),
                    ClaimSudoFlags(a.search_query)>>)
    /\ r.host = <<>>

\* C17: while a selection list is shown for a query that begins with the
\* token `sudo` and Enter would launch an entry, Enter leaves mode =
\* SudoPassword, sudo_password empty, sudo_log = ["Password: "] and
\* pending_command = (executable, final arguments, sudo flags of the query),
\* and asks the process host for nothing; so it does when a password and a
\* log were left over.
C17_PromptEntry ==
    Selecting /\ BeginsWithSudoToken(search_query) /\ LaunchesEntry(Self) =>
        /\ \A io \in {AllSucceed, SpawnRefused} :
               C17_Post(Self, launch_selected(Self, io))
        /\ C17_Post(Self, launch_selected(Stale(Self), AllSucceed))

C17_Witness ==
    /\ mode = "SudoPassword"
    /\ ~should_quit
    /\ sudo_password = <<>>
    /\ sudo_log = <<"Password: ">>
    /\ host = <<>>
    /\ search_query = <<"s", "u", "d", "o", " ", "-", "u", " ", "r", " ",
                        "f", "o", " ", " ", "A">>
    /\ pending_command = Some(<< <<"f", "o">>,
                                 << <<".", "/", "A">>, <<"-", "n">>, <<".", "/", "A">> >>,
                                 << <<"-", "u">>, <<"r">> >> >>)

\* The password prompt of a running session
Prompting ==
    ~should_quit /\ mode = "SudoPassword"

\* The validation helper exits with a non-zero status
ValidationRejects ==
    [AllSucceed EXCEPT !.wait = "failure"]

\* A request to run the pending command (sudo ... -b -S cmd args)
ClaimIsLaunchRequest(request) ==
    \E k \in 1..Len(request.args) : request.args[k] = <<"-", "b">>

\* C18: in the password prompt, after any number of failed attempts, an
\* Enter whose validation helper exits non-zero leaves mode = SudoPassword,
\* sudo_password empty, sudo_log longer by exactly "Sorry, try again." and
\* "Password: ", pending_command and every other field as before (should_quit
\* FALSE), and asks for no launch of the pending command.
C18_FailedValidationRetries ==
    [](Prompting =>
          LET r == launch_selected(Self, ValidationRejects)
          IN  /\ r.app = [Self EXCEPT
                             !.sudo_password = <<>>,
                             !.sudo_log = sudo_log
                                          \o <<"Sorry, try again.", "Password: ">>]
              /\ r.app.mode = "SudoPassword" /\ ~r.app.should_quit
              /\ r.app.pending_command = pending_command
              /\ \A k \in 1..Len(r.host) : ~ClaimIsLaunchRequest(r.host[k]))

C18_Witness ==
    /\ Prompting
    /\ sudo_log = <<"Password: ", "Sorry, try again.", "Password: ">>
    /\ sudo_password = <<>>
    /\ IsSome(pending_command)
    /\ Len(host) = 1
    /\ host[1].stdin = Some(<<"p">>)
    /\ launch_selected(Self, ValidationRejects).app.sudo_log
           = <<"Password: ", "Sorry, try again.", "Password: ",
               "Sorry, try again.", "Password: ">>

\* C19: in the password prompt, whatever the helpers answer, Enter asks for
\* the launch of the pending command only as the second request, after a
\* validation request that was spawned, got the current sudo_password on its
\* input and exited successfully; when the launch spawns, should_quit
\* becomes TRUE and status_message None; when it is refused, status_message
\* holds an error, should_quit stays FALSE and mode stays SudoPassword.
C19_LaunchAfterValidation ==
    [](Prompting =>
          \A io \in VerifyOutcomes :
              LET r == launch_selected(Self, io)
              IN  /\ Len(r.host) \in {1, 2}
                  /\ ~ClaimIsLaunchRequest(r.host[1])
                  /\ Len(r.host) = 2 <=>
                         (io.validate_spawn_ok /\ io.write_ok /\ io.wait = "success")
                  /\ Len(r.host) = 2 =>
                         /\ ClaimIsLaunchRequest(r.host[2])
                         /\ r.host[1].ok
                         /\ r.host[1].stdin = Some(sudo_password)
                         /\ IF r.host[2].ok
                            THEN r.app.should_quit /\ r.app.status_message = None
                            ELSE /\ IsSome(r.app.status_message)
                                 /\ ~r.app.should_quit
                                 /\ r.app.mode = "SudoPassword")

C19_Witness ==
    /\ should_quit
    /\ mode = "SudoPassword"
    /\ status_message = None
    /\ sudo_password = <<"p">>
    /\ Len(host) = 2
    /\ host[1].ok /\ host[1].stdin = Some(<<"p">>)
    /\ host[2].ok /\ ClaimIsLaunchRequest(host[2])

\* The answers in which a spawn or the write of the password fails
IoFailures ==
    { io \in VerifyOutcomes : ~io.validate_spawn_ok \/ ~io.write_ok \/ ~io.spawn_ok }

\* C20: in the password prompt, an Enter during which the spawn of a helper
\* (validation or launch) or the write of the password fails leaves sudo_log
\* longer by a failure message and "Password: ", sudo_password empty, mode =
\* SudoPassword and should_quit FALSE.
C20_IoFailureRetries ==
    Prompting =>
        \A io \in IoFailures :
            LET r == launch_selected(Self, io)
            IN  /\ Len(r.app.sudo_log) = Len(sudo_log) + 2
                /\ SubSeq(r.app.sudo_log, 1, Len(sudo_log)) = sudo_log
                /\ r.app.sudo_log[Len(sudo_log) + 1]
                       \in {"Failed to run sudo", "Failed to write password",
                            "Failed to launch sudo"}
                /\ r.app.sudo_log[Len(sudo_log) + 2] = "Password: "
                /\ r.app.sudo_password = <<>>
                /\ r.app.mode = "SudoPassword"
                /\ ~r.app.should_quit


ClaimAllowList ==
    { <<"-", "u">>, <<"-", "g">>, <<"-", "h">>, <<"-", "p">>,
      <<"-", "n">>, <<"-", "k">>, <<"-", "S">> }

\* The tokens of flags that are in the allow-list or are no flags
ClaimAllowed(flags) ==
    SelectSeq(flags, LAMBDA token : token \in ClaimAllowList \/ Head(token) # "-")

\* C22: in the password prompt, an Enter whose validation succeeds asks
\* first for `sudo` with the allowed tokens of the pending sudo flags in
\* their order followed by -v -S -k, and then for `sudo` with all pending
\* sudo flags followed by -b -S, the executable and its arguments.
C22_ValidationAllowList ==
    [](Prompting =>
          LET r == launch_selected(Self, AllSucceed)
              pending == Unwrap(pending_command)
          IN  /\ Len(r.host) = 2
              /\ r.host[1].program = SUDO /\ r.host[2].program = SUDO
              /\ r.host[1].args
                     = ClaimAllowed(pending[3])
                       \o << <<"-", "v">>, <<"-", "S">>, <<"-", "k">> >>
              /\ r.host[2].args
                     = pending[3] \o << <<"-", "b">>, <<"-", "S">>, pending[1] >>
                       \o pending[2])

C22_Witness ==
    /\ should_quit
    /\ mode = "SudoPassword"
    /\ sudo_args = << <<"-", "E">> >>
    /\ Len(host) = 2
    /\ host[1].args = << <<"-", "v">>, <<"-", "S">>, <<"-", "k">> >>
    /\ host[2].args = << <<"-", "E">>, <<"-", "b">>, <<"-", "S">>,
                         <<"f", "o">>, <<"-", "n">> >>

\* ------------------------------------------------------------------------
\* Auto-complete
\* ------------------------------------------------------------------------

\* The file the selection points at, if any
ClaimSelectedFile(a) ==
    IF a.mode = "FileSelection" /\ a.list_state # None
       /\ a.list_state[1] < Len(a.filtered_files)
    THEN Some(a.filtered_files[a.list_state[1] + 1])
    ELSE None

\* The part of the query up to and including its last space
ClaimUpToLastSpace(q) ==
    LET spaces == {i \in 1..Len(q) : q[i] = " "}
    IN  IF spaces = {} THEN <<>>
        ELSE SubSeq(q, 1, CHOOSE i \in spaces : \A j \in spaces : j <= i)

\* Whether the path names a directory of the file system once a leading home
\* marker (a tilde alone, or a tilde followed by the separator) is replaced
\* by the home directory
ClaimNamesDirectory(path) ==
    is_dir(IF path = <<"~">> \/ (Len(path) >= 2 /\ path[1] = "~" /\ path[2] = "/")
           THEN Home \o Tail(path)
           ELSE path)

ClaimCompletedQuery(a) ==
    LET path == ClaimSelectedFile(a)[1]
    IN  ClaimUpToLastSpace(a.search_query) \o path
            \o (IF ClaimNamesDirectory(path) THEN <<"/">> ELSE <<>>)

\* C23: with auto-complete enabled, in FileSelection with a path selected,
\* auto-complete replaces the query by its part up to and including the last
\* space followed by the selected path (the whole query when it has no space),
\* with a trailing "/" exactly when the tilde-expanded path is a directory,
\* and then runs the full recomputation; in every other case it changes
\* nothing.
C23_AutoComplete ==
    Selecting =>
        LET r == auto_complete(Self)
        IN  IF config.features.enable_auto_complete
               /\ ClaimSelectedFile(Self) # None
            THEN /\ r.search_query = ClaimCompletedQuery(Self)
                 /\ r = update_filter(
                            [Self EXCEPT !.search_query = ClaimCompletedQuery(Self)])
            ELSE r = Self

\* Tab on the directory ./D of the query "fi fo ./" left "fi fo ./D/", a query
\* that cannot be typed
C23_Witness ==
    /\ ~should_quit
    /\ config.features.enable_auto_complete
    /\ mode = "FileSelection"
    /\ search_query = <<"f", "i", " ", "f", "o", " ", ".", "/", "D", "/">>
    /\ host = <<>>

\* ------------------------------------------------------------------------
\* Favorites and the order of the catalog
\* ------------------------------------------------------------------------

\* a sorts before b as text: at the first position where they differ a has
\* the smaller character, or a ends there and b goes on
ClaimTextBefore(a, b) ==
    \E k \in 1..(Len(b)) :
        /\ \A i \in 1..(k - 1) : i <= Len(a) /\ a[i] = b[i]
        /\ \/ k = Len(a) + 1
           \/ k <= Len(a) /\ Code[a[k]] < Code[b[k]]

ClaimFolded(name) == [i \in 1..Len(name) |-> LowerChar(name[i])]

\* The order of the catalog: favorite flag, then (with recent-first) usage
\* count, then the case-folded name, then the name itself
ClaimBefore(a, b, h, recent_first) ==
    LET fa == \E i \in DOMAIN h.favorites : h.favorites[i] = a.name
        fb == \E i \in DOMAIN h.favorites : h.favorites[i] = b.name
        ca == IF a.name \in DOMAIN h.usage THEN h.usage[a.name] ELSE 0
        cb == IF b.name \in DOMAIN h.usage THEN h.usage[b.name] ELSE 0
    IN  \/ fa /\ ~fb
        \/ /\ fa = fb
           /\ \/ recent_first /\ ca > cb
              \/ /\ recent_first => ca = cb
                 /\ \/ ClaimTextBefore(ClaimFolded(a.name), ClaimFolded(b.name))
                    \/ /\ ClaimFolded(a.name) = ClaimFolded(b.name)
                       /\ ClaimTextBefore(a.name, b.name)

ClaimRanked(catalog, h, recent_first) ==
    \A i, j \in 1..Len(catalog) :
        i < j => ClaimBefore(catalog[i], catalog[j], h, recent_first)

\* Same entries, each as often
ClaimSameEntries(v, w) ==
    /\ Len(v) = Len(w)
    /\ \A x \in {v[i] : i \in 1..Len(v)} \cup {w[i] : i \in 1..Len(w)} :
          Cardinality({i \in 1..Len(v) : v[i] = x})
              = Cardinality({i \in 1..Len(w) : w[i] = x})

\* The entry the selection points at, if any
ClaimSelectedEntry(a) ==
    IF a.mode = "AppSelection" /\ a.list_state # None
       /\ a.list_state[1] < Len(a.filtered_entries)
    THEN Some(a.filtered_entries[a.list_state[1] + 1])
    ELSE None

\* Every name of the catalog
ClaimNames(a) == {a.entries[i].name : i \in 1..Len(a.entries)}

ClaimFavorite(h, name) == \E i \in DOMAIN h.favorites : h.favorites[i] = name

\* C24: toggle favorite acts only in AppSelection with an entry selected: it
\* flips the favorite flag of the selected entry's name and of no other name,
\* leaves the usage counts alone, ranks the whole catalog again (also the
\* entries the list does not show) and runs the recomputation; in
\* FileSelection and in the password prompt it changes nothing.
C24_ToggleFavorite ==
    ~should_quit =>
        LET r == toggle_favorite(Self)
        IN  IF ClaimSelectedEntry(Self) # None
            THEN /\ \A n \in ClaimNames(Self) :
                        ClaimFavorite(r.history, n)
                            = IF n = ClaimSelectedEntry(Self)[1].name
                              THEN ~ClaimFavorite(history, n)
                              ELSE ClaimFavorite(history, n)
                 /\ r.history.usage = history.usage
                 /\ ClaimSameEntries(r.entries, entries)
                 /\ ClaimRanked(r.entries, r.history, config.features.recent_first)
                 /\ r = update_filter([Self EXCEPT !.history = r.history,
                                                   !.entries = r.entries])
            ELSE r = Self

\* Sudoku was made the favorite while the query "sudok" hid Fi Fo: the catalog
\* now has Sudoku first
C24_Witness ==
    /\ ~should_quit
    /\ mode = "AppSelection"
    /\ search_query = <<"s", "u", "d", "o", "k">>
    /\ filtered_entries = <<EntrySudoku>>
    /\ history.favorites = <<EntrySudoku.name>>
    /\ entries = <<EntrySudoku, EntryFiFo>>

\* A third entry whose name differs from Fi Fo's by case only; the catalog
\* as the scan may return it is any arrangement of the three
ClaimEntryLower ==
    Entry(<<"f", "i", " ", "f", "o">>, << <<"f", "o">> >>)

ClaimScanned ==
    LET e == <<EntryFiFo, EntrySudoku, ClaimEntryLower>>
    IN  { v \in [1..3 -> {e[1], e[2], e[3]}] :
            Cardinality({v[1], v[2], v[3]}) = 3 }

\* What the persistence store may hold when the catalog is loaded
ClaimLoaded ==
    { [usage |-> u, favorites |-> f] :
        u \in { <<>>,
                (EntrySudoku.name :> 2) @@ (ClaimEntryLower.name :> 1) },
        f \in { <<>>, <<EntrySudoku.name>>, <<ClaimEntryLower.name>>,
                <<ClaimEntryLower.name, EntryFiFo.name>> } }

ClaimPick(t, S) ==
    [i \in 1..Cardinality(S) |->
        t[CHOOSE k \in S : Cardinality({j \in S : j < k}) = i - 1]]

\* The characters of q occur in t in the same order, not necessarily side by
\* side
ClaimOccursInOrder(q, t) ==
    /\ Len(q) <= Len(t)
    /\ \E S \in SUBSET (1..Len(t)) :
          Cardinality(S) = Len(q) /\ ClaimPick(t, S) = q

\* Every text of at most MaxTextLen characters over two letters, and the
\* names of the catalog as they are and in lower case
MaxTextLen == 3

ClaimTexts ==
    UNION { [1..n -> {"s", "u"}] : n \in 0..MaxTextLen }
        \cup { EntryFiFo.name, EntrySudoku.name,
               to_lowercase(EntryFiFo.name), to_lowercase(EntrySudoku.name) }

\* C26: fuzzy_match(query, target) is true exactly when the characters of
\* query occur in target in the same order, not necessarily contiguously; it
\* is true for the empty query and every target, and false for the empty
\* target and every non-empty query.
C26_SubsequenceMatch ==
    Selecting =>
        /\ \A t \in {EntryFiFo.name, EntrySudoku.name,
                      to_lowercase(EntryFiFo.name), to_lowercase(EntrySudoku.name)} :
              \A q \in {ClaimTrimmed, to_lowercase(ClaimTrimmed)} :
                  fuzzy_match(q, t) = ClaimOccursInOrder(q, t)
        /\ fuzzy_match(<<>>, search_query)
        /\ search_query # <<>> => ~fuzzy_match(search_query, <<>>)
        /\ (search_query = <<>> /\ history = EmptyHistory) =>
              \A q, t \in ClaimTexts :
                  /\ fuzzy_match(q, t) = ClaimOccursInOrder(q, t)
                  /\ fuzzy_match(<<>>, t)
                  /\ q # <<>> => ~fuzzy_match(q, <<>>)

\* The query " fo" shows Fi Fo, whose lower-cased name has f and o apart and
\* in this order, and not Sudoku
C26_Witness ==
    /\ ~should_quit
    /\ mode = "AppSelection"
    /\ search_query = <<" ", "f", "o">>
    /\ entries = <<EntryFiFo, EntrySudoku>>
    /\ filtered_entries = <<EntryFiFo>>
    /\ fuzzy_match(<<"f", "o">>, to_lowercase(EntryFiFo.name))
    /\ ~fuzzy_match(<<"f", "o">>, to_lowercase(EntrySudoku.name))

\* ------------------------------------------------------------------------
\* Directory lister
\* ------------------------------------------------------------------------

\* The position of the last separator of a path text, 0 when it has none
ClaimLastSeparator(e) ==
    LET at == {i \in 1..Len(e) : e[i] = "/"}
    IN  IF at = {} THEN 0 ELSE CHOOSE i \in at : \A j \in at : j <= i

\* The directory an input names: the whole expanded text when the input ends
\* with the separator, else the text before the last segment ("." when there
\* is none)
ClaimDirectory(q) ==
    LET e == ClaimExpand(q)
        k == ClaimLastSeparator(e)
    IN  IF q # <<>> /\ q[Len(q)] = "/" THEN e
        ELSE IF k = 0 THEN <<".">>
        ELSE IF k = 1 THEN <<"/">>
        ELSE SubSeq(e, 1, k - 1)

\* The prefix of an input: empty when it ends with the separator, else its
\* last segment
ClaimFilePrefix(q) ==
    LET e == ClaimExpand(q)
    IN  SubSeq(e, ClaimLastSeparator(e) + 1, Len(e))

ClaimHidden(name) == name # <<>> /\ name[1] = "."

\* The children of the directory that the lister is to return
ClaimListed(q) ==
    LET children == read_dir(ClaimDirectory(q))
        prefix == ClaimFilePrefix(q)
    IN  { children[i].path : i \in
            { i \in 1..Len(children) :
                /\ ClaimOccursInOrder(prefix, children[i].name)
                /\ ClaimHidden(children[i].name) => ClaimHidden(prefix) } }

\* The path a returned text stands for
ClaimShown(q, text) ==
    IF q # <<>> /\ q[1] = "~" /\ text # <<>> /\ text[1] = "~"
    THEN Home \o Tail(text)
    ELSE text

\* C27: the lister returns exactly the immediate children of the directory
\* of its input whose name has the characters of the prefix in order (case
\* kept), without the children whose name starts with "." unless the prefix
\* starts with "."; an input that ends with the separator has the empty
\* prefix and yields all children that are not hidden.
C27_ListerFiltering ==
    (Selecting /\ mode = "FileSelection" /\ filtered_entries = <<>>) =>
        LET q == ClaimTrimmed
            returned == list_files(q, config.features.dirs_first)
        IN  /\ filtered_files = returned
            /\ { ClaimShown(q, returned[i]) : i \in 1..Len(returned) }
                   = ClaimListed(q)
            /\ Cardinality(ClaimListed(q)) = Len(returned)
            /\ q[Len(q)] = "/" =>
                  Len(returned) =
                      Cardinality({ i \in DOMAIN read_dir(ClaimExpand(q)) :
                                      ~ClaimHidden(read_dir(ClaimExpand(q))[i].name) })

\* Whether a returned text names a directory
ClaimDirectoryText(text) ==
    is_dir(IF text # <<>> /\ text[1] = "~" THEN Home \o Tail(text) ELSE text)

\* The order the lister is to return its paths in
ClaimOrdered(files, dirs_first) ==
    \A i, j \in 1..Len(files) :
        i < j =>
            IF dirs_first /\ ClaimDirectoryText(files[i]) # ClaimDirectoryText(files[j])
            THEN ClaimDirectoryText(files[i])
            ELSE ClaimTextBefore(files[i], files[j])

\* C28: with directories first, every directory of the lister's result
\* precedes every file and each of the two groups is in ascending order of
\* the full path text; without it the whole result is in ascending order of
\* the full path text.
C28_ListerOrdering ==
    (Selecting /\ mode = "FileSelection") =>
        /\ ClaimOrdered(filtered_files, config.features.dirs_first)
        /\ \A dirs_first \in BOOLEAN :
              ClaimOrdered(list_files(ClaimTrimmed, dirs_first), dirs_first)

\* With directories first the query "~/" lists the directory D before the
\* files -p and A
C28_Witness ==
    /\ ~should_quit
    /\ mode = "FileSelection"
    /\ config.features.dirs_first
    /\ search_query = <<"~", "/">>
    /\ filtered_files =
          << <<"~", "/", "D">>, <<"~", "/", "-", "p">>, <<"~", "/", "A">> >>
    /\ list_files(<<"~", "/">>, FALSE) =
          << <<"~", "/", "-", "p">>, <<"~", "/", "A">>, <<"~", "/", "D">> >>

\* Inputs whose directory does not exist, is a plain file, or refuses to be
\* read
ClaimDeadPaths ==
    { <<"~", "/", "k", "/">>, <<"~", "/", "k", "/", "x">>,
      <<"/", "h", "x", "/">>, <<"/", "h", "x", "/", "A">>,
      <<"/", "h", "/", "A", "/">> }

\* C29: a directory that does not exist or cannot be read makes the lister
\* return the empty list: the recomputation of such a path query ends in
\* FileSelection with no path listed and nothing selected, sets no
\* status_message (an absent one stays absent) and leaves should_quit as it
\* was.
C29_UnreadableDirectory ==
    (Selecting /\ config.features.enable_file_explorer) =>
        /\ \A q \in ClaimDeadPaths :
              LET r == update_filter([Self EXCEPT !.search_query = q])
              IN  /\ list_files(q, config.features.dirs_first) = <<>>
                  /\ r.mode = "FileSelection"
                  /\ r.filtered_files = <<>>
                  /\ r.filtered_entries = <<>>
                  /\ r.list_state = None
                  /\ r.status_message = status_message
                  /\ r.should_quit = should_quit
        /\ search_query \in ClaimDeadPaths =>
              /\ mode = "FileSelection"
              /\ filtered_files = <<>>
              /\ list_state = None

\* The query "/hx/" names a directory that has a child and refuses to be read
C29_Witness ==
    /\ ~should_quit
    /\ search_query = <<"/", "h", "x", "/">>
    /\ mode = "FileSelection"
    /\ filtered_files = <<>>
    /\ list_state = None
    /\ status_message = None
    /\ Fs[<< <<"h", "x">> >>].children # <<>>

\* ------------------------------------------------------------------------
\* Pure file browsing
\* ------------------------------------------------------------------------

\* The path names something that is not a directory and whose permission
\* bits mark it executable
ClaimRunnable(path) ==
    LET n == Resolve(path)
    IN  /\ n # None
        /\ n[1] \in DOMAIN Fs
        /\ Fs[n[1]].mode_exec
        /\ ~Fs[n[1]].is_dir

\* C30: confirming in FileSelection with no resolved application opens the
\* selected path itself: the path is executed when its permission bits mark
\* it executable and it is not a directory, otherwise the open helper gets
\* it as its only argument; no entry of the catalog is launched or counted.
C30_PureFileBrowsing ==
    (Selecting /\ mode = "FileSelection" /\ filtered_entries = <<>>) =>
        \A io \in {AllSucceed, SpawnRefused} :
            LET r == launch_selected(Self, io)
            IN  IF ClaimSelectedFile(Self) = None
                THEN r.host = <<>> /\ r.app = Self
                ELSE LET path == ClaimExpand(ClaimSelectedFile(Self)[1])
                     IN  /\ Len(r.host) = 1
                         /\ r.host[1].program =
                                IF ClaimRunnable(path) THEN path ELSE XDG_OPEN
                         /\ r.host[1].args =
                                IF ClaimRunnable(path) THEN <<>> ELSE <<path>>
                         /\ r.app.history = history
                         /\ r.app.pending_command = None
                         /\ r.app.mode = "FileSelection"
                         /\ r.app.should_quit = io.spawn_ok

\* Enter on the executable file ~/D/x ran /h/D/x itself
C30_Witness ==
    /\ should_quit
    /\ mode = "FileSelection"
    /\ filtered_entries = <<>>
    /\ search_query = <<"~", "/", "D", "/">>
    /\ Len(host) = 1
    /\ host[1].program = <<"/", "h", "/", "D", "/", "x">>
    /\ host[1].args = <<>>
    /\ host[1].ok
    /\ history = EmptyHistory

\* ------------------------------------------------------------------------
\* The transcript of the password prompt
\* ------------------------------------------------------------------------

\* The lines the transcript may hold
ClaimTranscriptLines ==
    { "Password: ", "Sorry, try again.",
      "Failed to run sudo", "Failed to write password", "Sudo check failed" }

ClaimTranscriptClean ==
    /\ \A i \in 1..Len(sudo_log) : sudo_log[i] \in ClaimTranscriptLines
    /\ mode = "SudoPassword" =>
          sudo_log # <<>> /\ sudo_log[Len(sudo_log)] = "Password: "

\* A character typed in the password prompt
ClaimPasswordInput ==
    /\ mode = "SudoPassword"
    /\ ~should_quit
    /\ \E c \in PasswordChars : sudo_password' = Append(sudo_password, c)

ClaimUnselected(a) == [a EXCEPT !.list_state = None]

ClaimAlwaysSelected ==
    (Selecting /\ ActiveList # <<>>) => list_state # None

\* ------------------------------------------------------------------------
\* Trailing words that start with a dash
\* ------------------------------------------------------------------------

\* The fallback found a prefix, launch arguments are enabled and the last
\* trailing word starts with `-`
ClaimDashCase(trimmed, words) ==
    /\ ClaimInFallback(trimmed)
    /\ ClaimPrefixLengths(words) # {}
    /\ config.features.enable_launch_args
    /\ words[Len(words)][1] = "-"

\* C33: a trailing word that starts with `-` never makes the fallback look
\* for files (the mode stays AppSelection), yet it is kept as typed in
\* launch_args and reaches the launched program unchanged at its place in the
\* argument list.
C33_DashWordKept ==
    Selecting =>
        LET trimmed == ClaimTrimmed
            words == split_whitespace(trimmed)
        IN  ClaimDashCase(trimmed, words) =>
                /\ mode = "AppSelection"
                /\ filtered_files = <<>>
                /\ launch_args # None
                /\ launch_args[1] =
                       SubSeq(words, ClaimLongest(ClaimPrefixLengths(words)) + 1,
                              Len(words))
                /\ LaunchesEntry(Self) =>
                       LET launched == ClaimLaunched(launch_selected(Self, AllSucceed))
                           list == launch_args[1]
                       IN  /\ launched[2]
                                  = ClaimComposed(ClaimSelectedTemplate(Self), list)
                           /\ \E k \in 1..Len(launched[2]) :
                                  launched[2][k] = words[Len(words)]

\* The word -p follows Fi Fo: the file -p of the current directory, which a
\* lookup would list, is not offered, and fo was started with -p in the place
\* of each placeholder
C33_Witness ==
    /\ should_quit
    /\ mode = "AppSelection"
    /\ search_query = <<"f", "i", " ", "f", "o", " ", "-", "p">>
    /\ launch_args = Some(<< <<"-", "p">> >>)
    /\ filtered_files = <<>>
    /\ list_files(<<"-", "p">>, config.features.dirs_first)
           = << <<".", "/", "-", "p">> >>
    /\ Len(host) = 1
    /\ host[1].program = <<"f", "o">>
    /\ host[1].args = << <<"-", "p">>, <<"-", "n">>, <<"-", "p">> >>

\* ------------------------------------------------------------------------
\* Display paths under the home directory
\* ------------------------------------------------------------------------

\* The text the lister was given in a FileSelection state: the whole trimmed
\* query, or the last trailing word of a launch-argument query
ClaimListerInput ==
    IF filtered_entries = <<>> THEN ClaimTrimmed
    ELSE LET words == split_whitespace(ClaimTrimmed) IN words[Len(words)]

\* The path is the home directory or lies below it
ClaimUnderHome(path) ==
    \/ path = Home
    \/ /\ Len(path) > Len(Home) + 1
       /\ SubSeq(path, 1, Len(Home) + 1) = Home \o <<"/">>

\* The path names an entry of the file system
ClaimExists(path) ==
    LET n == Resolve(path) IN n # None /\ n[1] \in DOMAIN Fs

\* C34: of the paths the lister returns for an input that begins with `~`,
\* only those under the home directory are shown with a leading `~`, and the
\* tilde expansion of each shown text is the path of the listed entry; this
\* includes the input `~` itself when the home directory has a sibling whose
\* name begins with the name of the home directory.
C34_CollapseRoundTrip ==
    (Selecting /\ mode = "FileSelection" /\ ClaimListerInput[1] = "~") =>
        \A i \in 1..Len(filtered_files) :
            LET shown == filtered_files[i]
                path == expand_tilde(shown)
            IN  /\ ClaimExists(path)
                /\ shown[1] = "~" => ClaimUnderHome(path)

\* ------------------------------------------------------------------------
\* Usage counts
\* ------------------------------------------------------------------------

ClaimCount(h, name) == IF name \in DOMAIN h.usage THEN h.usage[name] ELSE 0

\* The entry a confirmation launches
ClaimTarget(a) ==
    IF a.mode = "FileSelection" THEN a.filtered_entries[1]
    ELSE a.filtered_entries[a.list_state[1] + 1]

\* h2 counts one more launch of `name` than h1 and is h1 otherwise
ClaimCountedOnce(h1, h2, name) ==
    /\ h2.favorites = h1.favorites
    /\ \A n \in DOMAIN h1.usage \cup DOMAIN h2.usage \cup {name} :
          ClaimCount(h2, n) = ClaimCount(h1, n) + (IF n = name THEN 1 ELSE 0)

\* C35: confirming a launch with a resolved application adds exactly one to
\* the usage count of that entry, also when the spawn is refused or the
\* launch is held for the password prompt, and does not rank the catalog
\* again; a query edit, a move of the selection, auto-complete, a favorite
\* toggle, the validation of a password with its retries and a pure file open
\* change no usage count.
C35_UsageCountedOnce ==
    [](/\ (Selecting /\ LaunchesEntry(Self)) =>
              \A io \in {AllSucceed, SpawnRefused} :
                  LET r == launch_selected(Self, io)
                  IN  /\ ClaimCountedOnce(history, r.app.history,
                                          ClaimTarget(Self).name)
                      /\ r.app.entries = entries
       /\ (Selecting /\ ~LaunchesEntry(Self)) =>
              \A io \in {AllSucceed, SpawnRefused} :
                  launch_selected(Self, io).app.history = history
       /\ Selecting =>
              /\ update_filter(Self).history = history
              /\ auto_complete(Self).history = history
              /\ toggle_favorite(Self).history.usage = history.usage
              /\ \A delta \in {-1, 1} : move_selection(Self, delta).history = history
              /\ select_first(Self).history = history
              /\ select_last(Self).history = history
       /\ Prompting =>
              \A io \in VerifyOutcomes :
                  launch_selected(Self, io).app.history = history)

\* With recent-first, Sudoku was launched and counted once; the catalog still
\* has Fi Fo, never launched, before it
C35_Witness ==
    /\ should_quit
    /\ config.features.recent_first
    /\ get_count(history, EntryFiFo.name) = 0
    /\ get_count(history, EntrySudoku.name) = 1
    /\ entries = <<EntryFiFo, EntrySudoku>>
    /\ Len(host) = 1
    /\ host[1].program = <<"s", "k">>

\* ------------------------------------------------------------------------
\* Pending launch arguments
\* ------------------------------------------------------------------------

\* C36: in every reachable state launch_args is present only if launch
\* arguments are enabled, filtered_entries is not empty and the argument list
\* is not empty; and whenever the mode is FileSelection with filtered_entries
\* not empty, launch_args is present and filtered_files is not empty.
C36_PendingArguments ==
    /\ launch_args # None =>
          /\ config.features.enable_launch_args
          /\ filtered_entries # <<>>
          /\ launch_args[1] # <<>>
    /\ (mode = "FileSelection" /\ filtered_entries # <<>>) =>
          /\ launch_args # None
          /\ filtered_files # <<>>

\* The query "fi fo -p ~/D/" resolved Fi Fo, holds two arguments and offers
\* the one file of ~/D
C36_Witness ==
    /\ ~should_quit
    /\ mode = "FileSelection"
    /\ filtered_entries = <<EntryFiFo>>
    /\ launch_args = Some(<< <<"-", "p">>, <<"~", "/", "D", "/">> >>)
    /\ filtered_files = << <<"~", "/", "D", "/", "x">> >>
    /\ config.features.enable_launch_args

\* ------------------------------------------------------------------------
\* The catalog as a collection
\* ------------------------------------------------------------------------

\* v is w with some elements left out, the others in the order of w
ClaimSubList(v, w) ==
    \E S \in SUBSET (1..Len(w)) : ClaimPick(w, S) = v

\* C37: no operation adds, removes or alters an entry of the catalog, and
\* only a favorite toggle may change its order; in every reachable state
\* filtered_entries is the catalog with some entries left out, in the order of
\* the catalog.
C37_CatalogImmutable ==
    /\ [](ClaimSubList(filtered_entries, entries))
    /\ [][/\ ClaimSameEntries(entries', entries)
          /\ entries' # entries =>
                /\ mode = "AppSelection" /\ ~should_quit
                /\ history'.favorites # history.favorites
                /\ history'.usage = history.usage
                /\ search_query' = search_query]_vars

\* Sudoku was made the favorite, which put it first, and the query " fo" then
\* left only Fi Fo of the catalog
C37_Witness ==
    /\ ~should_quit
    /\ search_query = <<" ", "f", "o">>
    /\ history.favorites = <<EntrySudoku.name>>
    /\ entries = <<EntrySudoku, EntryFiFo>>
    /\ filtered_entries = <<EntryFiFo>>

\* ------------------------------------------------------------------------
\* The end of the session
\* ------------------------------------------------------------------------

\* The handler started a program: a detached launch or file open, or the
\* launch of the pending command, and the spawn was accepted
ClaimStarted(requests) ==
    /\ requests # <<>>
    /\ LET last == requests[Len(requests)]
       IN  /\ last.ok
           /\ last.kind = "spawn_detached" \/ ClaimIsLaunchRequest(last)

\* Every answer the process host may give to a confirmation in mode m
ClaimAnswers(m) ==
    IF m = "SudoPassword" THEN VerifyOutcomes ELSE {AllSucceed, SpawnRefused}

\* C38: should_quit becomes true only by Escape or by an accepted spawn (a
\* direct launch, a file open, or the launch of the pending command after a
\* successful validation); a refused launch, a failed validation, a query
\* edit and a move of the selection do not set it; and once it is true no
\* operation makes it false again.
C38_QuitOnlyByEscapeOrSpawn ==
    /\ [](/\ \A io \in ClaimAnswers(mode) :
                LET r == launch_selected(Self, io)
                IN  r.app.should_quit = (should_quit \/ ClaimStarted(r.host))
          /\ mode # "SudoPassword" =>
                /\ update_filter(Self).should_quit = should_quit
                /\ auto_complete(Self).should_quit = should_quit
                /\ toggle_favorite(Self).should_quit = should_quit
                /\ select_first(Self).should_quit = should_quit
                /\ select_last(Self).should_quit = should_quit
                /\ \A delta \in {-1, 1} :
                      move_selection(Self, delta).should_quit = should_quit)
    /\ [][should_quit' # should_quit =>
            /\ should_quit'
            /\ \/ ClaimStarted(host')
               \/ host' = <<>> /\ UNCHANGED <<search_query, entries, filtered_entries,
                                              list_state, status_message, mode,
                                              history, sudo_log, pending_command>>]_vars

\* The launch of Fi Fo was refused and the session went on; Escape then ended
\* it
C38_Witness ==
    /\ should_quit
    /\ host = <<>>
    /\ failures = 1
    /\ status_message = Some([what |-> "Failed to launch", name |-> EntryFiFo.name])

\* ------------------------------------------------------------------------
\* The favorites list
\* ------------------------------------------------------------------------

\* How many toggles in a row are tried
MaxToggles == 3

ClaimToggleNames == {EntryFiFo.name, EntrySudoku.name, ClaimEntryLower.name}

\* Every favorites list without a repeated name
ClaimFavoriteLists ==
    UNION { { f \in [1..n -> ClaimToggleNames] :
                \A i, j \in 1..n : i # j => f[i] # f[j] } : n \in 0..3 }

\* Every sequence of at most MaxToggles names
ClaimToggleRuns ==
    UNION { [1..n -> ClaimToggleNames] : n \in 0..MaxToggles }

\* The history after toggling the names of `run` one after the other
RECURSIVE ClaimToggled(_, _)
ClaimToggled(h, run) ==
    IF run = <<>> THEN h
    ELSE ClaimToggled(HistoryToggleFavorite(h, Head(run)), Tail(run))

ClaimNoRepeat(f) ==
    \A i, j \in 1..Len(f) : i # j => f[i] # f[j]

ClaimIn(f, name) == \E i \in 1..Len(f) : f[i] = name

ClaimOdd(run, name) ==
    Cardinality({i \in 1..Len(run) : run[i] = name}) % 2 = 1

\* What C39 says of the toggles of `run` applied to the history h
ClaimToggleLaw(h, run) ==
    LET after == ClaimToggled(h, run)
    IN  /\ ClaimNoRepeat(after.favorites)
        /\ after.usage = h.usage
        /\ \A n \in ClaimToggleNames :
              /\ is_favorite(after, n) = (ClaimIn(h.favorites, n) # ClaimOdd(run, n))
              /\ \A m \in ClaimToggleNames :
                    is_favorite(ClaimToggled(after, <<n, n>>), m)
                        = is_favorite(after, m)

\* C39: starting from a favorites list without a repeated name, after any
\* sequence of toggle_favorite calls the list has no name twice, a name is a
\* favorite exactly when it was toggled an odd number of times since it was
\* last absent, and toggling one name twice in a row leaves is_favorite of
\* every name as it was.
C39_ToggleFavoriteAlgebra ==
    /\ ClaimNoRepeat(history.favorites)
    /\ (Selecting /\ search_query = <<>>) =>
          /\ \A run \in ClaimToggleRuns : ClaimToggleLaw(history, run)
          /\ history = EmptyHistory =>
                \A f \in ClaimFavoriteLists, run \in ClaimToggleRuns :
                    ClaimToggleLaw([usage |-> history.usage, favorites |-> f], run)

\* Both entries are favorites, Sudoku toggled first; a further toggle of
\* Sudoku takes it out and one more puts it back behind Fi Fo
C39_Witness ==
    /\ ~should_quit
    /\ history.favorites = <<EntrySudoku.name, EntryFiFo.name>>
    /\ HistoryToggleFavorite(history, EntrySudoku.name).favorites
           = <<EntryFiFo.name>>
    /\ ClaimToggled(history, <<EntrySudoku.name, EntrySudoku.name>>).favorites
           = <<EntryFiFo.name, EntrySudoku.name>>
====
